---- MODULE Spec2Model ----
(***************************************************************************)
(* Model of the purchase-order OCR core: the numeric normalizers           *)
(* (clean_num, clean_money), the display-time math audit                   *)
(* (perform_math_check, "Pass B"), the fallback price allocation           *)
(* (allocate_prices_smart, the "Price Reconciler"), the extraction-time    *)
(* price validation (validate_prices, "Pass A") and the loop body of       *)
(* extract_items_with_template that builds and scores one item.            *)
(*                                                                         *)
(* Representation of Python values                                         *)
(*   - a str is a tuple of one-character strings: "1,2" is <<"1",",","2">> *)
(*   - a float is an integer count of hundredths (12.5 is 1250); the       *)
(*     product quantity*price and everything compared with it is a count   *)
(*     of ten-thousandths.  Arithmetic is exact: binary rounding, inf and  *)
(*     nan are outside the model, and the strings of the input pools carry *)
(*     at most two fractional digits and no exponent.                      *)
(*   - a field of an item is a record [k, v, s]: k = "none" (None),        *)
(*     k = "num" (int/float, value v) or k = "str" (string s).             *)
(***************************************************************************)
EXTENDS Integers, Sequences, FiniteSets, TLC

VARIABLES
    items,            \* perform_math_check: the list of item dicts
    tolerance,        \* perform_math_check: the tolerance argument (ten-thousandths)
    auditPc,          \* "idle" | "call" | "return"
    raw_prices_str,   \* allocate_prices_smart: the raw price string
    quantity,         \* allocate_prices_smart: the quantity string
    result,           \* allocate_prices_smart: the returned dict
    alloc_prices,     \* allocate_prices_smart: the local list of the usable tokens' values
    alloc_qty,        \* allocate_prices_smart: the local parsed quantity
    picked,           \* allocate_prices_smart: amount_idx, unit_idx, disc_idx and the
                      \*   position of the list price, as positions of `prices` (0: none)
    allocPc,          \* "idle" | "call" | "return"
    cur_entry,        \* extract_items_with_template: the entry of items_list at hand
    item_dict,        \* extract_items_with_template: the item built from the entry
    item_validation,  \* extract_items_with_template: what validate_prices returned
    item_confidence,  \* extract_items_with_template: the local confidence (hundredths)
    item_used_fallback, \* extract_items_with_template: the local flag
    alloc_calls,      \* the calls of allocate_prices_smart made for the entry
    final_items,      \* extract_items_with_template: the list returned
    extractPc,        \* "idle" | "entry" | "appended"
    norm_value,       \* clean_money, clean_num: the argument
    money_result,     \* clean_money: the returned string
    num_result,       \* clean_num: the returned float
    moneyPc,          \* clean_money: "idle" | "call" | "return"
    numPc,            \* clean_num: "idle" | "call" | "return"
    call_log,         \* the calls of allocate_prices_smart made so far, with their results
    callPc,           \* "idle" | "calling"
    saved_paths,      \* batch: the paths submitted, one task each
    taskPc,           \* process_single_file: the position of each task
    file_locks,       \* utils._file_locks: path -> lock
    locks_lock,       \* utils._locks_lock: the task inside it, or 0
    lock_holder,      \* the task holding each file lock, or 0
    my_lock,          \* process_single_file: the local file_lock of each task
    task_result,      \* process_single_file: what each task returns
    collected,        \* batch: the futures as_completed has yielded
    stats,            \* batch: the ProcessingStats object
    all_data,         \* batch: the collected items
    mainPc,           \* batch: "idle" | "collecting" | "joined"
    file_path,        \* process_single_file: the path of the file, as its components
    pipePc,           \* the line the call chain for the file has reached
    attempt,          \* extract_items_with_template: the loop variable
    attempt_log,      \* the attempts made: how each ended and whether a wait followed
    items_list,       \* extract_items_with_template: the entries of the parsed reply
    attempt_items,    \* extract_items_with_template: final_items of the attempt
    sample_file,      \* the uploaded file: "none" | "uploaded" | "deleted"
    delete_calls,     \* the calls of genai.delete_file made
    extract_return,   \* what extract_items_with_template returns or raises
    read_result,      \* what read_purchase_order returns
    file_result       \* what process_single_file returns

auditVars == <<items, tolerance, auditPc>>
allocVars == <<raw_prices_str, quantity, alloc_prices, alloc_qty, result, picked, allocPc>>
extractVars ==
    <<cur_entry, item_dict, item_validation, item_confidence, item_used_fallback,
      alloc_calls, final_items, extractPc>>
normVars == <<norm_value, money_result, num_result, moneyPc, numPc>>
coreVars == <<auditVars, allocVars, extractVars>>
reallocVars == <<call_log, callPc>>
batchVars ==
    <<saved_paths, taskPc, file_locks, locks_lock, lock_holder, my_lock, task_result,
      collected, stats, all_data, mainPc>>
pipeVars == <<file_path, pipePc, attempt, attempt_log, items_list, attempt_items, sample_file,
              delete_calls, extract_return, read_result, file_result>>
laterVars == <<normVars, reallocVars, batchVars, pipeVars>>
vars == <<coreVars, laterVars>>

----------------------------------------------------------------------------
(* Characters and numerals *)

Digits == {"0", "1", "2", "3", "4", "5", "6", "7", "8", "9"}

DigitVal(c) ==
    CASE c = "0" -> 0 [] c = "1" -> 1 [] c = "2" -> 2 [] c = "3" -> 3
      [] c = "4" -> 4 [] c = "5" -> 5 [] c = "6" -> 6 [] c = "7" -> 7
      [] c = "8" -> 8 [] c = "9" -> 9

Abs(x) == IF x < 0 THEN -x ELSE x

\* Removes every character of `drop` from s (str.replace(c, "") for each c).
RECURSIVE Without(_, _)
Without(s, drop) ==
    IF s = <<>> THEN <<>>
    ELSE IF Head(s) \in drop THEN Without(Tail(s), drop)
         ELSE <<Head(s)>> \o Without(Tail(s), drop)

\* Keeps only the characters of `keep` (re.sub(r'[^...]', '', s)).
RECURSIVE Only(_, _)
Only(s, keep) ==
    IF s = <<>> THEN <<>>
    ELSE IF Head(s) \in keep THEN <<Head(s)>> \o Only(Tail(s), keep)
         ELSE Only(Tail(s), keep)

RECURSIVE IntVal(_)
IntVal(s) == IF s = <<>> THEN 0 ELSE IntVal(SubSeq(s, 1, Len(s) - 1)) * 10 + DigitVal(s[Len(s)])

DotCount(s) == Cardinality({i \in 1..Len(s) : s[i] = "."})
DigitCount(s) == Cardinality({i \in 1..Len(s) : s[i] \in Digits})

\* float() accepts an unsigned decimal numeral: digits with at most one point
\* and at least one digit ("5." and ".5" parse, "." and "" and "1.2.3" do not).
IsDecimal(s) ==
    /\ \A i \in 1..Len(s) : s[i] \in Digits \cup {"."}
    /\ DotCount(s) <= 1
    /\ DigitCount(s) >= 1

\* The value of a decimal numeral, in hundredths.
DecimalVal(s) ==
    LET dot  == IF DotCount(s) = 0 THEN Len(s) + 1
                ELSE CHOOSE i \in 1..Len(s) : s[i] = "."
        ip   == SubSeq(s, 1, dot - 1)
        fp   == SubSeq(s, dot + 1, Len(s))
        f1   == IF Len(fp) >= 1 THEN DigitVal(fp[1]) ELSE 0
        f2   == IF Len(fp) >= 2 THEN DigitVal(fp[2]) ELSE 0
    IN  IntVal(ip) * 100 + f1 * 10 + f2

\* float(s) of a string: an optional sign, then a decimal numeral.
FloatOk(s) ==
    IF s # <<>> /\ Head(s) \in {"-", "+"} THEN IsDecimal(Tail(s)) ELSE IsDecimal(s)

FloatVal(s) ==
    IF s # <<>> /\ Head(s) = "-" THEN -DecimalVal(Tail(s))
    ELSE IF s # <<>> /\ Head(s) = "+" THEN DecimalVal(Tail(s))
    ELSE DecimalVal(s)

\* str.strip(): leading and trailing blanks removed.
RECURSIVE LStrip(_)
LStrip(s) == IF s # <<>> /\ Head(s) = " " THEN LStrip(Tail(s)) ELSE s
RECURSIVE RStrip(_)
RStrip(s) == IF s # <<>> /\ s[Len(s)] = " " THEN RStrip(SubSeq(s, 1, Len(s) - 1)) ELSE s
Strip(s) == LStrip(RStrip(s))

----------------------------------------------------------------------------
(* Python values held by an item's fields *)

None == [k |-> "none", v |-> 0, s |-> <<>>]
Num(n) == [k |-> "num", v |-> n, s |-> <<>>]
Str(chars) == [k |-> "str", v |-> 0, s |-> chars]

\* Python truthiness of a field value.
Truthy(val) ==
    CASE val.k = "none" -> FALSE
      [] val.k = "num" -> val.v # 0
      [] val.k = "str" -> val.s # <<>>

----------------------------------------------------------------------------
(* agent_tools.clean_num *)

clean_num_separators == {",", "$", " "}

\* clean_num with the letter-to-digit correction of clean_money applied first.
clean_num_OcrCorrected(val) ==
    IF ~Truthy(val) THEN 0
    ELSE IF val.k = "num" THEN val.v
    ELSE LET fixed == [i \in 1..Len(val.s) |->
                         CASE val.s[i] \in {"O", "o"} -> "0"
                           [] val.s[i] \in {"L", "l", "I", "i"} -> "1"
                           [] OTHER -> val.s[i]]
             s == Strip(Without(fixed, clean_num_separators))
         IN  IF FloatOk(s) THEN FloatVal(s) ELSE 0

\* A falsy value gives 0.0, a number is returned as it is, a string is
\* stripped of separators and parsed; a string float() rejects gives 0.0.
clean_num(val) ==
    IF ~Truthy(val) THEN 0
    ELSE IF val.k = "num" THEN val.v
    ELSE LET s == Strip(Without(val.s, clean_num_separators))
         IN  IF FloatOk(s) THEN FloatVal(s) ELSE 0

----------------------------------------------------------------------------
(* agent_tools.perform_math_check (Pass B) *)

\* round-half-even of n/d to an integer (d > 0): what '{x:.0f}' prints.
RoundHalfEven(n, d) ==
    LET q == n \div d
        r == n % d
    IN  IF 2 * r < d THEN q
        ELSE IF 2 * r > d THEN q + 1
        ELSE IF q % 2 = 0 THEN q ELSE q + 1

\* f"{x:,.0f}": x (ten-thousandths) printed as a whole number.
FormatWhole(x) == RoundHalfEven(x, 10000)
\* f"{x:.2f}": x (ten-thousandths) printed with two decimals (the value, in hundredths).
FormatCents(x) == RoundHalfEven(x, 100)

\* 0.01, in ten-thousandths: the "diff < 0.01" cutoff.
PassCutoff == 100
\* tolerance=5.0, in ten-thousandths: the default argument.
DefaultTolerance == 50000

StatusPending == "pending"   \* "⚪ 待確認"
StatusPass    == "pass"      \* "🟢 通過"
StatusWarning == "warning"   \* "🟡 誤差"
StatusFailure == "failure"   \* "🔴 異常"

MsgZero == [text |-> "zero or blank", nums |-> <<>>]
MsgPerfect == [text |-> "perfect match", nums |-> <<>>]
MsgWarning(diff) == [text |-> "diff {diff:.2f} (acceptable)", nums |-> <<FormatCents(diff)>>]
MsgFailure(amount, calculated_amount, diff) ==
    [text |-> "recorded {amount:,.0f} != calculated {calculated_amount:,.0f} (diff {diff:,.0f})",
     nums |-> <<FormatWhole(amount), FormatWhole(calculated_amount), FormatWhole(diff)>>]

\* Mutant: the tolerance rule is tried before the perfect-match rule.
Verdict_ToleranceFirst(amount, calculated_amount, diff, tol) ==
    IF amount = 0 /\ calculated_amount = 0 THEN [status |-> StatusPending, msg |-> MsgZero]
    ELSE IF diff <= tol THEN [status |-> StatusWarning, msg |-> MsgWarning(diff)]
    ELSE IF diff < PassCutoff THEN [status |-> StatusPass, msg |-> MsgPerfect]
    ELSE [status |-> StatusFailure, msg |-> MsgFailure(amount, calculated_amount, diff)]

\* Mutant: the failure message prints the calculated amount in both places.
Verdict_MsgRepeats(amount, calculated_amount, diff, tol) ==
    IF amount = 0 /\ calculated_amount = 0 THEN [status |-> StatusPending, msg |-> MsgZero]
    ELSE IF diff < PassCutoff THEN [status |-> StatusPass, msg |-> MsgPerfect]
    ELSE IF diff <= tol THEN [status |-> StatusWarning, msg |-> MsgWarning(diff)]
    ELSE [status |-> StatusFailure,
          msg |-> MsgFailure(calculated_amount, calculated_amount, diff)]

\* Mutant: the tolerance is compared with < instead of <=.
Verdict_StrictTolerance(amount, calculated_amount, diff, tol) ==
    IF amount = 0 /\ calculated_amount = 0 THEN [status |-> StatusPending, msg |-> MsgZero]
    ELSE IF diff < PassCutoff THEN [status |-> StatusPass, msg |-> MsgPerfect]
    ELSE IF diff < tol THEN [status |-> StatusWarning, msg |-> MsgWarning(diff)]
    ELSE [status |-> StatusFailure, msg |-> MsgFailure(amount, calculated_amount, diff)]

\* Mutant: the perfect-match rule is tried before the zero rule.
Verdict_PassFirst(amount, calculated_amount, diff, tol) ==
    IF diff < PassCutoff THEN [status |-> StatusPass, msg |-> MsgPerfect]
    ELSE IF amount = 0 /\ calculated_amount = 0 THEN [status |-> StatusPending, msg |-> MsgZero]
    ELSE IF diff <= tol THEN [status |-> StatusWarning, msg |-> MsgWarning(diff)]
    ELSE [status |-> StatusFailure, msg |-> MsgFailure(amount, calculated_amount, diff)]

\* The status/message decision of one loop iteration, from the cleaned values:
\* amount, calculated_amount and diff in ten-thousandths.
Verdict(amount, calculated_amount, diff, tol) ==
    IF amount = 0 /\ calculated_amount = 0 THEN [status |-> StatusPending, msg |-> MsgZero]
    ELSE IF diff < PassCutoff THEN [status |-> StatusPass, msg |-> MsgPerfect]
    ELSE IF diff <= tol THEN [status |-> StatusWarning, msg |-> MsgWarning(diff)]
    ELSE [status |-> StatusFailure, msg |-> MsgFailure(amount, calculated_amount, diff)]

\* The verdict written and the three fields left as they were.
CheckItem_KeepStrings(item, tol) ==
    LET qty == clean_num(item.qty)
        amount == clean_num(item.amount)
        calculated_amount == qty * clean_num(item.price)
        v == Verdict(amount * 100, calculated_amount,
                     Abs(amount * 100 - calculated_amount), tol)
    IN  [item EXCEPT !.status = v.status, !.msg = v.msg]

\* One iteration of the loop: the three fields are overwritten by their
\* cleaned numbers and the two audit fields are written.
CheckItem(item, tol) ==
    LET qty    == clean_num(item.qty)
        price  == clean_num(item.price)
        amount == clean_num(item.amount)
        calculated_amount == qty * price
        diff   == Abs(amount * 100 - calculated_amount)
        v      == Verdict(amount * 100, calculated_amount, diff, tol)
    IN  [item EXCEPT !.qty = Num(qty), !.price = Num(price), !.amount = Num(amount),
                     !.status = v.status, !.msg = v.msg]

perform_math_check(its, tol) == [i \in 1..Len(its) |-> CheckItem(its[i], tol)]

----------------------------------------------------------------------------
(* Inputs of the audit: the values an extracted item can carry *)

\* How many items a call of perform_math_check receives.
MaxItems == 1

QtyPool ==
    { None,                      \* the key is missing
      Num(0),
      Str(<<"1">>),
      Str(<<"2">>),
      Num(50) }                  \* 0.5
PricePool ==
    { Str(<<"1", "0">>),
      Num(1),                    \* 0.01
      Str(<<"1", ",", "2", "0", "0">>),
      Str(<<"a", "b", "c">>) }   \* unparsable
AmountPool ==
    { Str(<<>>),
      Str(<<"1", "0">>),
      Str(<<"1", "5">>),
      Str(<<"2", "0">>),
      Str(<<"1", "2", ".", "5">>),
      Num(2),                    \* 0.02
      Str(<<" ", "$", "2", ",", "4", "0", "0", " ">>),
      Str(<<"-", "5">>) }

NoMsg == [text |-> "", nums |-> <<>>]

ItemPool ==
    { [qty |-> q, price |-> p, amount |-> a, status |-> "", msg |-> NoMsg] :
        q \in QtyPool, p \in PricePool, a \in AmountPool }

\* 0, the default 5.0 and 10.0, in ten-thousandths.
TolerancePool == {0, DefaultTolerance, 2 * DefaultTolerance}

ItemLists == UNION { [1..n -> ItemPool] : n \in 0..MaxItems }

AuditIdle == items = <<>> /\ tolerance = DefaultTolerance /\ auditPc = "idle"

AuditInit ==
    /\ items \in ItemLists
    /\ tolerance \in TolerancePool
    /\ auditPc = "call"

\* The call perform_math_check(items, tolerance): the list is rewritten in place
\* and returned.
PerformMathCheck ==
    /\ auditPc = "call"
    /\ items' = perform_math_check(items, tolerance)
    /\ auditPc' = "return"
    /\ UNCHANGED tolerance

\* The longest list of items whose order is followed through the call.
MaxListItems == 2

\* Items that carry their line number (the "項次" key) beside the audited
\* fields: a missing, a parsable and an unparsable quantity, a string and a
\* number as unit price, a plain and a decorated amount.
NumberedItemPool ==
    { [index |-> Str(ix), qty |-> q, price |-> p, amount |-> a,
       status |-> "", msg |-> NoMsg] :
        ix \in { <<"1">>, <<"2">> },
        q \in { None, Str(<<"2">>), Str(<<"a", "b", "c">>) },
        p \in { Str(<<"1", "0">>), Num(1050) },
        a \in { Str(<<"2", "0">>), Str(<<"$", "1", ",", "2", "0", "0">>) } }

NumberedItemLists == UNION { [1..n -> NumberedItemPool] : n \in 0..MaxListItems }

AuditListInit ==
    /\ items \in NumberedItemLists
    /\ tolerance = DefaultTolerance
    /\ auditPc = "call"

----------------------------------------------------------------------------
(* ocr_engine.clean_money *)

\* str.upper() on the letters of the modelled alphabet.
Upper(c) ==
    CASE c = "o" -> "O" [] c = "l" -> "L" [] c = "i" -> "I"
      [] c = "a" -> "A" [] c = "b" -> "B" [] c = "c" -> "C"
      [] OTHER -> c

\* No letter is read as a digit.
OcrFix_None(c) == c

\* .replace('O', '0').replace('L', '1').replace('I', '1')
OcrFix(c) ==
    CASE c = "O" -> "0" [] c = "L" -> "1" [] c = "I" -> "1" [] OTHER -> c

\* clean_money of a string: the cleaned numeral, or "0" when the value is
\* empty or what is left does not parse.
clean_money(value) ==
    IF value = <<>> THEN <<"0">>
    ELSE LET s == [i \in 1..Len(value) |-> OcrFix(Upper(value[i]))]
             clean_val == Only(s, Digits \cup {"."})
         IN  IF IsDecimal(clean_val) THEN clean_val ELSE <<"0">>

----------------------------------------------------------------------------
(* ocr_engine.allocate_prices_smart *)

\* str.split(): the maximal runs of non-blank characters, in order.
RECURSIVE SplitFrom(_, _)
SplitFrom(s, cur) ==
    IF s = <<>> THEN (IF cur = <<>> THEN <<>> ELSE <<cur>>)
    ELSE IF Head(s) = " "
         THEN (IF cur = <<>> THEN <<>> ELSE <<cur>>) \o SplitFrom(Tail(s), <<>>)
         ELSE SplitFrom(Tail(s), Append(cur, Head(s)))
Split(s) == SplitFrom(s, <<>>)

\* The filter of the list comprehension: the token is kept when its cleaned
\* string is not the string "0".
Usable(x) == clean_money(x) # <<"0">>

\* [clean_money(x) for x in raw_prices_str.split() if clean_money(x) != "0"]
RECURSIVE CleanTokens(_)
CleanTokens(tokens) ==
    IF tokens = <<>> THEN <<>>
    ELSE (IF Usable(Head(tokens)) THEN <<clean_money(Head(tokens))>> ELSE <<>>)
         \o CleanTokens(Tail(tokens))
PriceList(raw) == CleanTokens(Split(raw))

\* min(seq, key=...): the position of the first smallest key.
RECURSIVE ScanMin(_, _, _)
ScanMin(keys, k, best) ==
    IF k > Len(keys) THEN best
    ELSE ScanMin(keys, k + 1, IF keys[k] < keys[best] THEN k ELSE best)
\* Mutant: a later equal key replaces the best so far.
RECURSIVE ScanMinLast(_, _, _)
ScanMinLast(keys, k, best) ==
    IF k > Len(keys) THEN best
    ELSE ScanMinLast(keys, k + 1, IF keys[k] <= keys[best] THEN k ELSE best)
LastMinPos(keys) == ScanMinLast(keys, 2, 1)
FirstMinPos(keys) == ScanMin(keys, 2, 1)

\* max(seq, key=...) and prices.index(max(prices)): the position of the first
\* largest key.
RECURSIVE ScanMax(_, _, _)
ScanMax(keys, k, best) ==
    IF k > Len(keys) THEN best
    ELSE ScanMax(keys, k + 1, IF keys[k] > keys[best] THEN k ELSE best)
\* Mutant: a later equal key replaces the best so far.
RECURSIVE ScanMaxLast(_, _, _)
ScanMaxLast(keys, k, best) ==
    IF k > Len(keys) THEN best
    ELSE ScanMaxLast(keys, k + 1, IF keys[k] >= keys[best] THEN k ELSE best)
LastMaxPos(keys) == ScanMaxLast(keys, 2, 1)
FirstMaxPos(keys) == ScanMax(keys, 2, 1)

\* [(i, p) for i, p in enumerate(prices) if i not in used_indices]: the
\* positions still free, in reading order.
RECURSIVE RemainingFrom(_, _, _)
RemainingFrom(i, n, used_indices) ==
    IF i > n THEN <<>>
    ELSE (IF i \in used_indices THEN <<>> ELSE <<i>>) \o RemainingFrom(i + 1, n, used_indices)
\* Mutant: the filter is dropped, every position stays available.
RemainingAll(n, used_indices) == RemainingFrom(1, n, {})
Remaining(n, used_indices) == RemainingFrom(1, n, used_indices)

\* "" and str(x) of a float x, as the value of a result field.
Empty == <<>>
Filled(x) == <<x>>

EmptyResult == [list |-> Empty, discount |-> Empty, unit |-> Empty, amount |-> Empty]
NonePicked == [list |-> 0, discount |-> 0, unit |-> 0, amount |-> 0]

\* 150, in hundredths: the "last < 150" test of the three-token branch.
DiscountLimit == 15000

\* qty = float(clean_money(quantity)) if quantity else 0
QtyOf(q) == IF q = <<>> THEN 0 ELSE DecimalVal(clean_money(q))

RECURSIVE GCD(_, _)
GCD(a, b) == IF b = 0 THEN a ELSE GCD(b, a % b)

\* abs(x[1] - (amount / qty)) for qty > 0, scaled by the positive factor qty
\* so that it stays an integer: |p - amount/qty| and |p*qty - amount| order the
\* prices alike.  With p, amount and qty in hundredths that is
\* |p*qty - amount*100|, reduced by gcd(qty, 100) to keep the numbers small.
Distance(p, amount, qty) ==
    LET g == GCD(qty, 100)
    IN  Abs(p * (qty \div g) - amount * (100 \div g))

\* The position, within `remaining`, of the unit price: the price closest to
\* amount / qty when qty > 0, the largest price otherwise.
UnitPos(prices, remaining, amount, qty) ==
    IF qty > 0
    THEN FirstMinPos([k \in 1..Len(remaining) |-> Distance(prices[remaining[k]], amount, qty)])
    ELSE FirstMaxPos([k \in 1..Len(remaining) |-> prices[remaining[k]]])

\* Mutant of the two-token branch: the fields are filled in reading order.
TwoTokensInOrder(prices) ==
    [result |-> [EmptyResult EXCEPT !.unit = Filled(prices[1]), !.amount = Filled(prices[2])],
     picked |-> NonePicked]

\* len(prices) == 2
TwoTokens(prices) ==
    [result |-> [EmptyResult EXCEPT
                    !.unit = Filled(prices[FirstMinPos(prices)]),
                    !.amount = Filled(prices[FirstMaxPos(prices)])],
     picked |-> NonePicked]

\* Mutant of the three-token branch: the leftover is a discount whenever it is below 150.
LastIsDiscountBelowLimit(last, unit_price) == last < DiscountLimit
\* last < unit_price and last < 150
LastIsDiscount(last, unit_price) == last < unit_price /\ last < DiscountLimit

\* len(prices) == 3
ThreeTokens(prices, qty) ==
    LET n          == Len(prices)
        amount_idx == FirstMaxPos(prices)
        amount     == prices[amount_idx]
        rem1       == Remaining(n, {amount_idx})
        unit_idx   == rem1[UnitPos(prices, rem1, amount, qty)]
        unit_price == prices[unit_idx]
        rem2       == Remaining(n, {amount_idx, unit_idx})
        last       == prices[rem2[1]]
    IN  IF LastIsDiscount(last, unit_price)
        THEN [result |-> [list |-> Empty, discount |-> Filled(last),
                          unit |-> Filled(unit_price), amount |-> Filled(amount)],
              picked |-> [list |-> 0, discount |-> rem2[1], unit |-> unit_idx,
                          amount |-> amount_idx]]
        ELSE [result |-> [list |-> Filled(last), discount |-> Empty,
                          unit |-> Filled(unit_price), amount |-> Filled(amount)],
              picked |-> [list |-> rem2[1], discount |-> 0, unit |-> unit_idx,
                          amount |-> amount_idx]]

\* Mutant of the discount selection: the largest remaining price.
DiscountPosLargest(prices, remaining) ==
    FirstMaxPos([k \in 1..Len(remaining) |-> prices[remaining[k]]])
\* min(remaining, key=lambda x: x[1])
DiscountPos(prices, remaining) ==
    FirstMinPos([k \in 1..Len(remaining) |-> prices[remaining[k]]])

\* len(prices) >= 4
FourOrMoreTokens(prices, qty) ==
    LET n          == Len(prices)
        amount_idx == FirstMaxPos(prices)
        amount     == prices[amount_idx]
        rem1       == Remaining(n, {amount_idx})
        unit_idx   == rem1[UnitPos(prices, rem1, amount, qty)]
        unit_price == prices[unit_idx]
        rem2       == Remaining(n, {amount_idx, unit_idx})
        disc_idx   == IF rem2 # <<>> THEN rem2[DiscountPos(prices, rem2)] ELSE 0
        rem3       == Remaining(n, {amount_idx, unit_idx} \cup
                                   (IF rem2 # <<>> THEN {disc_idx} ELSE {}))
    IN  [result |-> [list     |-> IF rem3 # <<>> THEN Filled(prices[rem3[1]]) ELSE Empty,
                     discount |-> IF rem2 # <<>> THEN Filled(prices[disc_idx]) ELSE Empty,
                     unit     |-> Filled(unit_price),
                     amount   |-> Filled(amount)],
         picked |-> [list     |-> IF rem3 # <<>> THEN rem3[1] ELSE 0,
                     discount |-> disc_idx,
                     unit     |-> unit_idx,
                     amount   |-> amount_idx]]

\* Mutant of the branch selection: a single token is taken as the amount.
AllocateOneTokenAsAmount(prices, qty) ==
    IF Len(prices) >= 4 THEN FourOrMoreTokens(prices, qty)
    ELSE IF Len(prices) = 3 THEN ThreeTokens(prices, qty)
    ELSE IF Len(prices) = 2 THEN TwoTokens(prices)
    ELSE IF Len(prices) = 1
         THEN [result |-> [EmptyResult EXCEPT !.amount = Filled(prices[1])],
               picked |-> NonePicked]
    ELSE [result |-> EmptyResult, picked |-> NonePicked]

\* The branch on len(prices).
Allocate(prices, qty) ==
    IF Len(prices) >= 4 THEN FourOrMoreTokens(prices, qty)
    ELSE IF Len(prices) = 3 THEN ThreeTokens(prices, qty)
    ELSE IF Len(prices) = 2 THEN TwoTokens(prices)
    ELSE [result |-> EmptyResult, picked |-> NonePicked]

\* prices = [float(p) for p in price_list]: every kept string parses, it came
\* out of clean_money.
PricesOf(raw) ==
    LET price_list == PriceList(raw)
    IN  [i \in 1..Len(price_list) |-> DecimalVal(price_list[i])]

allocate_prices_smart(raw, q) == Allocate(PricesOf(raw), QtyOf(q))

----------------------------------------------------------------------------
(* Inputs of the allocation *)

\* The longest token sequence over the price tokens of a regular line.
MaxTokens == 5
\* The longest token sequence over the irregular tokens.
MaxOddTokens == 3

RegularTokens ==
    { <<"8", "0">>, <<"2", "0", "0">>, <<"2", "5", "0">>, <<"8", "0", "0", "0">> }
OddTokens ==
    { <<"0">>, <<"0", ".", "0", "0">>, <<"O">>, <<"a", "b", "c">>,
      <<"1", ".", "2", ".", "3">>, <<"1", "0", "0">>, <<"5", "O", "O">>,
      <<"1", "2", "0">>, <<"$", "1", ",", "2", "0", "0">> }
QuantityPool ==
    { <<>>, <<"0">>, <<"4", "0">>, <<"1">>, <<"a", "b", "c">> }

\* " ".join(tokens)
RECURSIVE Join(_)
Join(tokens) ==
    IF tokens = <<>> THEN <<>>
    ELSE IF Len(tokens) = 1 THEN Head(tokens)
    ELSE Head(tokens) \o <<" ">> \o Join(Tail(tokens))

RawStrings ==
    { Join(ts) : ts \in UNION { [1..n -> RegularTokens] : n \in 0..MaxTokens } }
    \cup
    { Join(ts) : ts \in UNION { [1..n -> OddTokens] : n \in 0..MaxOddTokens } }

AllocIdle ==
    /\ raw_prices_str = <<>>
    /\ quantity = <<>>
    /\ alloc_prices = <<>>
    /\ alloc_qty = 0
    /\ result = EmptyResult
    /\ picked = NonePicked
    /\ allocPc = "idle"

AllocInit ==
    /\ raw_prices_str \in RawStrings
    /\ quantity \in QuantityPool
    /\ alloc_prices = <<>>
    /\ alloc_qty = 0
    /\ result = EmptyResult
    /\ picked = NonePicked
    /\ allocPc = "call"

\* The call allocate_prices_smart(raw_prices_str, quantity).
AllocatePricesSmart ==
    /\ allocPc = "call"
    /\ alloc_prices' = PricesOf(raw_prices_str)
    /\ alloc_qty' = QtyOf(quantity)
    /\ LET r == allocate_prices_smart(raw_prices_str, quantity)
       IN  result' = r.result /\ picked' = r.picked
    /\ allocPc' = "return"
    /\ UNCHANGED <<raw_prices_str, quantity>>

----------------------------------------------------------------------------
(* ocr_engine.validate_prices (Pass A) *)

DigitChar(d) ==
    CASE d = 0 -> "0" [] d = 1 -> "1" [] d = 2 -> "2" [] d = 3 -> "3"
      [] d = 4 -> "4" [] d = 5 -> "5" [] d = 6 -> "6" [] d = 7 -> "7"
      [] d = 8 -> "8" [] d = 9 -> "9"

\* str(n) of a whole number n >= 0.
RECURSIVE IntStr(_)
IntStr(n) ==
    IF n < 10 THEN <<DigitChar(n)>> ELSE IntStr(n \div 10) \o <<DigitChar(n % 10)>>

\* str(x) of a float x (hundredths): the shortest numeral, with at least one
\* fractional digit ("200.0", "12.5", "0.05").
FloatStr(x) ==
    LET a    == Abs(x)
        frac == IF a % 100 = 0 THEN <<"0">>
                ELSE IF a % 10 = 0 THEN <<DigitChar((a % 100) \div 10)>>
                ELSE <<DigitChar((a % 100) \div 10), DigitChar(a % 10)>>
    IN  (IF x < 0 THEN <<"-">> ELSE <<>>) \o IntStr(a \div 100) \o <<".">> \o frac

\* str(value) of a field value.
PyStr(val) ==
    CASE val.k = "none" -> <<"N", "o", "n", "e">>
      [] val.k = "num" -> FloatStr(val.v)
      [] val.k = "str" -> val.s

\* clean_money of any field value: a falsy value gives "0", everything else is
\* cleaned as its str().
clean_money_value(val) == IF ~Truthy(val) THEN <<"0">> ELSE clean_money(PyStr(val))

\* float(x or 0): a falsy value is 0, a number is itself, a string is parsed
\* after its surrounding blanks are dropped; ok is FALSE where float() raises.
FloatOrZero(val) ==
    IF ~Truthy(val) THEN [ok |-> TRUE, v |-> 0]
    ELSE IF val.k = "num" THEN [ok |-> TRUE, v |-> val.v]
    ELSE LET s == Strip(val.s)
         IN  IF FloatOk(s) THEN [ok |-> TRUE, v |-> FloatVal(s)]
             ELSE [ok |-> FALSE, v |-> 0]

\* 1 / PRICE_ERROR_TOLERANCE: error > 0.05 is  diff * 20 > expected.
ToleranceDivisor == 20
\* The confidence, in hundredths, and what the two checks subtract from it.
FullConfidence == 100
AmountPenalty == 30
UnitPricePenalty == 20
\* FALLBACK_CONFIDENCE_PENALTY and LOW_CONFIDENCE_THRESHOLD, in hundredths.
FallbackConfidencePenalty == 20
LowConfidenceThreshold == 70

WarnFormat == "format_error"       \* "價格格式錯誤: ..."
WarnAmount == "amount_mismatch"    \* "金額異常: ..."
WarnUnit   == "unit_mismatch"      \* "單價異常: ..."
WarnLow    == "low_confidence"     \* "信心度低 (...)"

Warning(kind, args) == [kind |-> kind, args |-> args]

\* error > tolerance with "==" counted as an excess.
ExceedsTolerance_Inclusive(diff, expected) ==
    diff >= (expected + ToleranceDivisor - 1) \div ToleranceDivisor

\* abs(x - expected) / expected > PRICE_ERROR_TOLERANCE, for expected > 0 and
\* diff = abs(x - expected) counted in the same unit as expected.
ExceedsTolerance(diff, expected) == diff > expected \div ToleranceDivisor

\* Lines 90-93: the amount check fires.
AmountMismatch(unit_price, qty, amount) ==
    /\ unit_price > 0 /\ qty > 0 /\ amount > 0
    /\ LET expected == unit_price * qty
       IN  ExceedsTolerance(Abs(amount * 100 - expected), expected)

\* The discount read as a percentage whatever its size.
RateScale_AlwaysPercent(discount_val) == 10000

\* rate = discount_val / 100.0 if discount_val > 1 else discount_val: the power
\* of ten that list_price (hundredths) * discount_val (hundredths) is counted in.
RateScale(discount_val) == IF discount_val > 100 THEN 10000 ELSE 100

\* Lines 97-102: the unit-price check fires.
UnitPriceMismatch(list_price, discount_val, unit_price) ==
    /\ list_price > 0 /\ discount_val > 0 /\ unit_price > 0
    /\ LET expected == list_price * discount_val
       IN  /\ expected > 0
           /\ ExceedsTolerance(Abs(unit_price * RateScale(discount_val) - expected),
                               expected)

\* max(0.0, min(1.0, confidence))
Clamp(confidence) ==
    IF confidence < 0 THEN 0
    ELSE IF confidence > FullConfidence THEN FullConfidence ELSE confidence

\* The early return of the except branch taken only when every field fails.
FormatErrorOf_AllFail(lp, dv, up, am) == ~lp.ok /\ ~dv.ok /\ ~up.ok /\ ~am.ok

\* The try block raises: one of the four float() calls fails.
FormatErrorOf(lp, dv, up, am) == ~lp.ok \/ ~dv.ok \/ ~up.ok \/ ~am.ok

\* is_valid reported whatever was recorded.
IsValidOf_Always(warnings) == TRUE

\* len(warnings) == 0
IsValidOf(warnings) == warnings = <<>>

validate_prices(prices_dict, qty_str) ==
    LET lp  == FloatOrZero(prices_dict.list)
        dv  == FloatOrZero(prices_dict.discount)
        up  == FloatOrZero(prices_dict.unit)
        am  == FloatOrZero(prices_dict.amount)
        qty == QtyOf(qty_str)
    IN  IF FormatErrorOf(lp, dv, up, am)
        THEN [is_valid |-> FALSE,
              warnings |-> <<Warning(WarnFormat, <<>>)>>,
              confidence |-> 0]
        ELSE LET w1 == IF AmountMismatch(up.v, qty, am.v)
                       THEN <<Warning(WarnAmount, <<am.v, up.v, qty>>)>> ELSE <<>>
                 w2 == IF UnitPriceMismatch(lp.v, dv.v, up.v)
                       THEN <<Warning(WarnUnit, <<up.v, lp.v, dv.v>>)>> ELSE <<>>
                 confidence == FullConfidence
                                 - (IF w1 # <<>> THEN AmountPenalty ELSE 0)
                                 - (IF w2 # <<>> THEN UnitPricePenalty ELSE 0)
             IN  [is_valid |-> IsValidOf(w1 \o w2),
                  warnings |-> w1 \o w2,
                  confidence |-> Clamp(confidence)]

----------------------------------------------------------------------------
(* ocr_engine.extract_items_with_template: one entry of the model's reply   *)
(* turned into one item (the body of the loop over items_list).             *)

\* A field the allocation returned, as the string stored in the item.
AllocatedField(f) == IF f = Empty THEN Str(<<>>) ELSE Str(FloatStr(f[1]))

\* The fallback taken whenever raw prices are present.
HasStructured_Never(price_fields) == FALSE

\* bool(price_fields.get('UnitPrice') or price_fields.get('Amount'))
HasStructured(price_fields) ==
    Truthy(price_fields.UnitPrice) \/ Truthy(price_fields.Amount)

\* The penalty left out.
Penalised_Never(confidence, used_fallback) == confidence

\* if used_fallback: confidence -= FALLBACK_CONFIDENCE_PENALTY
Penalised(confidence, used_fallback) ==
    IF used_fallback THEN confidence - FallbackConfidencePenalty ELSE confidence

\* The low-confidence test with the threshold itself counted as low.
IsLow_Inclusive(confidence) == confidence <= LowConfidenceThreshold

\* confidence < LOW_CONFIDENCE_THRESHOLD
IsLow(confidence) == confidence < LowConfidenceThreshold

\* The low-confidence warning appended at the end of the list.
WithLowWarning_Last(warnings, confidence) ==
    IF IsLow(confidence) THEN warnings \o <<Warning(WarnLow, <<confidence>>)>>
    ELSE warnings

\* warnings.insert(0, f"信心度低 ({confidence:.0%})") when the confidence is low
WithLowWarning(warnings, confidence) ==
    IF IsLow(confidence) THEN <<Warning(WarnLow, <<confidence>>)>> \o warnings
    ELSE warnings

\* warnings[:2]
FirstTwo(warnings) == SubSeq(warnings, 1, IF Len(warnings) < 2 THEN Len(warnings) ELSE 2)

\* item_dict[...] = allocated[...], for the four price fields (lines 343-346).
AllocatedPrices(allocated) ==
    [list     |-> AllocatedField(allocated.list),
     discount |-> AllocatedField(allocated.discount),
     unit     |-> AllocatedField(allocated.unit),
     amount   |-> AllocatedField(allocated.amount)]

\* The price fields of the item and whether the fallback filled them
\* (lines 329-349).
PriceFieldsOf(entry, qty_str) ==
    IF HasStructured(entry.PriceFields)
    THEN [prices |-> [list     |-> entry.PriceFields.ListPrice,
                      discount |-> entry.PriceFields.Discount,
                      unit     |-> entry.PriceFields.UnitPrice,
                      amount   |-> entry.PriceFields.Amount],
          used_fallback |-> FALSE, calls |-> 0]
    ELSE IF Truthy(entry.RawPrices)
    THEN [prices |-> AllocatedPrices(allocate_prices_smart(entry.RawPrices.s, qty_str).result),
          used_fallback |-> TRUE, calls |-> 1]
    ELSE [prices |-> [list |-> Str(<<>>), discount |-> Str(<<>>),
                      unit |-> Str(<<>>), amount |-> Str(<<>>)],
          used_fallback |-> FALSE, calls |-> 0]

\* The remark of the item: the warning text put in front of the entry's
\* remark (lines 361-366); no text is put in front when warning_text is <<>>.
RemarkOf(validation, confidence, remarks) ==
    IF ~validation.is_valid \/ IsLow(confidence)
    THEN [warning_text |-> FirstTwo(WithLowWarning(validation.warnings, confidence)),
          rest |-> remarks]
    ELSE [warning_text |-> <<>>, rest |-> remarks]

\* Lines 357-373: the confidence, the remark and the item as it is appended.
ScoredItem(entry, qty_str, filled, validation, confidence) ==
    [item_dict |-> [qty        |-> qty_str,
                    list       |-> filled.prices.list,
                    discount   |-> filled.prices.discount,
                    unit       |-> filled.prices.unit,
                    amount     |-> filled.prices.amount,
                    confidence |-> IF confidence < 0 THEN 0 ELSE confidence,
                    remark     |-> RemarkOf(validation, confidence, entry.Remarks)],
     validation    |-> validation,
     used_fallback |-> filled.used_fallback,
     calls         |-> filled.calls,
     confidence    |-> confidence]

\* Lines 357-358: the confidence Pass A returned, less the fallback penalty.
ValidatedItem(entry, qty_str, filled, validation) ==
    ScoredItem(entry, qty_str, filled, validation,
               Penalised(validation.confidence, filled.used_fallback))

\* Lines 352-356: Pass A on the four price fields and the quantity.
PricedItem(entry, qty_str, filled) ==
    ValidatedItem(entry, qty_str, filled, validate_prices(filled.prices, qty_str))

\* Lines 329-349: the price fields, structured or allocated.
QuantifiedItem(entry, qty_str) ==
    PricedItem(entry, qty_str, PriceFieldsOf(entry, qty_str))

\* One pass of the loop body (lines 308-373), from the cleaned quantity on.
extract_item(entry) == QuantifiedItem(entry, clean_money_value(entry.Quantity))

----------------------------------------------------------------------------
(* Inputs of the extraction of one item *)

\* The largest whole quantity the upstream record gives as a number.
MaxQuantity == 1

EntryQuantityPool ==
    { Str(<<"4", "0">>), Str(<<>>) } \cup { Num(100 * n) : n \in 0..MaxQuantity }
ListPricePool == { Str(<<>>), Str(<<"2", "5", "0">>) }
DiscountPool ==
    { None, Str(<<"8", "0">>), Str(<<"0", ".", "8">>), Str(<<"1">>),
      Str(<<"8", "0", "%">>) }
UnitPricePool ==
    { Str(<<>>), Str(<<"1", "0", "0">>), Str(<<"2", "0", "0">>), Str(<<"2", "1", "0">>),
      Str(<<"2", "1", "0", ".", "0", "1">>), Str(<<"-", "5">>),
      Str(<<"1", ",", "2", "0", "0">>) }
EntryAmountPool ==
    { Str(<<>>), Num(0), Str(<<"8", "0", "0", "0">>), Str(<<"8", "4", "0", "0">>),
      Str(<<"8", "4", "0", "0", ".", "0", "1">>), Str(<<"2", "5", "0">>),
      Str(<<"a", "b", "c">>) }
RawPricesPool ==
    { None, Str(<<>>), Str(<<"0">>), Str(<<"1", "0", "0">>),
      Str(<<"2", "0", "0", " ", "8", "0", "0", "0">>),
      Str(<<"2", "5", "0", " ", "9", "0", " ", "2", "0", "0", " ", "8", "0", "0", "0">>),
      Str(<<"2", "5", "0", " ", "8", "0", " ", "1", "0", "0", " ", "8", "0", "0", "0">>) }
RemarksPool == { Str(<<>>), Str(<<"u", "r", "g", "e", "n", "t">>) }

EntryPool ==
    { [Quantity |-> q,
       PriceFields |-> [ListPrice |-> lp, Discount |-> d, UnitPrice |-> up, Amount |-> a],
       RawPrices |-> raw, Remarks |-> rem] :
        q \in EntryQuantityPool, lp \in ListPricePool, d \in DiscountPool,
        up \in UnitPricePool, a \in EntryAmountPool, raw \in RawPricesPool,
        rem \in RemarksPool }

NoEntry ==
    [Quantity |-> None,
     PriceFields |-> [ListPrice |-> None, Discount |-> None, UnitPrice |-> None,
                      Amount |-> None],
     RawPrices |-> None, Remarks |-> None]
NoItem ==
    [qty |-> <<>>, list |-> None, discount |-> None, unit |-> None, amount |-> None,
     confidence |-> 0, remark |-> [warning_text |-> <<>>, rest |-> None]]
NoValidation == [is_valid |-> TRUE, warnings |-> <<>>, confidence |-> FullConfidence]

ExtractIdle ==
    /\ cur_entry = NoEntry
    /\ item_dict = NoItem
    /\ item_validation = NoValidation
    /\ item_confidence = FullConfidence
    /\ item_used_fallback = FALSE
    /\ alloc_calls = 0
    /\ final_items = <<>>
    /\ extractPc = "idle"

ExtractInit ==
    /\ cur_entry \in EntryPool
    /\ item_dict = NoItem
    /\ item_validation = NoValidation
    /\ item_confidence = FullConfidence
    /\ item_used_fallback = FALSE
    /\ alloc_calls = 0
    /\ final_items = <<>>
    /\ extractPc = "entry"

\* The loop body for one entry: the item is built, scored and appended.
ExtractItem ==
    /\ extractPc = "entry"
    /\ \E r \in {extract_item(cur_entry)} :
           /\ item_dict' = r.item_dict
           /\ item_validation' = r.validation
           /\ item_confidence' = r.confidence
           /\ item_used_fallback' = r.used_fallback
           /\ alloc_calls' = alloc_calls + r.calls
           /\ final_items' = Append(final_items, r.item_dict)
    /\ extractPc' = "appended"
    /\ UNCHANGED cur_entry

----------------------------------------------------------------------------
(* Inputs of the two normalizers, clean_money and clean_num *)

\* The longest string drawn from the alphabet below.
MaxNormLen == 3

NormAlphabet == {"1", "0", ".", ",", "$", "O", "l", " ", "-"}
NormExamples ==
    { <<"1", ",", "2", "0", "0">>, <<"$", "5", "0", "0">>,
      <<" ", "$", "5", "0", "0", " ">>, <<"O", "0", "L">>,
      <<"1", ".", "2", ".", "3">>, <<"1", "i", "o">> }
NormStrings ==
    UNION { [1..n -> NormAlphabet] : n \in 0..MaxNormLen } \cup NormExamples
NormValues ==
    { None, Num(0), Num(1250), Num(-500) } \cup { Str(s) : s \in NormStrings }

NormIdle ==
    /\ norm_value = None
    /\ money_result = <<>>
    /\ num_result = 0
    /\ moneyPc = "idle"
    /\ numPc = "idle"

NormInit ==
    /\ norm_value \in NormValues
    /\ money_result = <<>>
    /\ num_result = 0
    /\ moneyPc = "call"
    /\ numPc = "call"

\* The call clean_money(norm_value).
CleanMoney ==
    /\ moneyPc = "call"
    /\ money_result' = clean_money_value(norm_value)
    /\ moneyPc' = "return"
    /\ UNCHANGED <<norm_value, num_result, numPc>>

\* The call clean_num(norm_value).
CleanNum ==
    /\ numPc = "call"
    /\ num_result' = clean_num(norm_value)
    /\ numPc' = "return"
    /\ UNCHANGED <<norm_value, money_result, moneyPc>>

----------------------------------------------------------------------------
(* Repeated calls of allocate_prices_smart *)

\* The longest sequence of calls followed.
MaxCalls == 3

CallRawPool ==
    { <<>>,
      <<"2", "0", "0", " ", "8", "0", "0", "0">>,
      <<"8", "0", " ", "2", "0", "0", " ", "8", "0", "0", "0">>,
      <<"2", "5", "0", " ", "8", "0", " ", "2", "0", "0", " ", "8", "0", "0", "0">> }
CallQuantityPool == { <<"4", "0">>, <<"1">> }

\* One result dict shared by the calls: a field the call does not fill keeps
\* what the call before it left there.
CallResult_Leftover(raw, q) ==
    LET own  == allocate_prices_smart(raw, q).result
        left == IF call_log = <<>> THEN EmptyResult ELSE call_log[Len(call_log)].result
        Keep(mine, theirs) == IF mine = Empty THEN theirs ELSE mine
    IN  [list     |-> Keep(own.list, left.list),
         discount |-> Keep(own.discount, left.discount),
         unit     |-> Keep(own.unit, left.unit),
         amount   |-> Keep(own.amount, left.amount)]

\* The dict a call returns.
CallResult(raw, q) == allocate_prices_smart(raw, q).result

ReallocIdle == call_log = <<>> /\ callPc = "idle"
ReallocInit == call_log = <<>> /\ callPc = "calling"

\* One more call allocate_prices_smart(raw, q), recorded with what it returned.
CallAllocate ==
    /\ callPc = "calling"
    /\ Len(call_log) < MaxCalls
    /\ \E raw \in CallRawPool, q \in CallQuantityPool :
           call_log' = Append(call_log, [raw |-> raw, quantity |-> q,
                                         result |-> CallResult(raw, q)])
    /\ UNCHANGED callPc

----------------------------------------------------------------------------
(* web_app: the batch run (tab 2), its worker tasks process_single_file and *)
(* utils.get_file_lock, utils.ProcessingStats                               *)

\* The largest number of saved paths a batch submits.
MaxFiles == 2

PathPool == {"a.pdf", "b.pdf"}
SavedPathLists == UNION { [1..n -> PathPool] : n \in 1..MaxFiles }
Tasks == 1..Len(saved_paths)

\* The items of a file whose extraction succeeds: one or two.
ItemsOfFile(file, n) == [i \in 1..n |-> [file |-> file, line |-> i]]
NoResult == [file |-> "", status |-> "", items |-> <<>>, error |-> ""]
ErrorResult(file, error) ==
    [file |-> file, status |-> "error", items |-> <<>>, error |-> error]
SuccessResult(file, n) ==
    [file |-> file, status |-> "success", items |-> ItemsOfFile(file, n), error |-> ""]
\* What the body of the with block can return for a file.
TaskOutcomes(file) ==
    { ErrorResult(file, "size"), ErrorResult(file, "read"), ErrorResult(file, "exception"),
      SuccessResult(file, 1), SuccessResult(file, 2) }

\* A new lock made for every caller.
FileLocksAfter_AlwaysNew(locks, path, fresh) ==
    [p \in DOMAIN locks \cup {path} |-> IF p = path THEN fresh ELSE locks[p]]

\* if file_path not in _file_locks: _file_locks[file_path] = threading.Lock()
FileLocksAfter(locks, path, fresh) ==
    IF path \in DOMAIN locks THEN locks
    ELSE [p \in DOMAIN locks \cup {path} |-> IF p = path THEN fresh ELSE locks[p]]

NewStats == [total |-> 0, success |-> 0, failed |-> 0, total_items |-> 0]
\* A success counted without its items.
add_success_CountOnly(st, item_count) == [st EXCEPT !.success = @ + 1]
\* ProcessingStats.add_success
add_success(st, item_count) ==
    [st EXCEPT !.success = @ + 1, !.total_items = @ + item_count]
\* ProcessingStats.add_failure
add_failure(st) == [st EXCEPT !.failed = @ + 1]

BatchIdle ==
    /\ saved_paths = <<>>
    /\ taskPc = <<>>
    /\ file_locks = <<>>
    /\ locks_lock = 0
    /\ lock_holder = <<>>
    /\ my_lock = <<>>
    /\ task_result = <<>>
    /\ collected = {}
    /\ stats = NewStats
    /\ all_data = <<>>
    /\ mainPc = "idle"

\* The state once every task is submitted: stats.start(len(saved_paths)), no
\* lock made yet, every task at its first line.
BatchInit ==
    /\ saved_paths \in SavedPathLists
    /\ taskPc = [t \in Tasks |-> "start"]
    /\ file_locks = <<>>
    /\ locks_lock = 0
    /\ lock_holder = [l \in Tasks |-> 0]
    /\ my_lock = [t \in Tasks |-> 0]
    /\ task_result = [t \in Tasks |-> NoResult]
    /\ collected = {}
    /\ stats = [NewStats EXCEPT !.total = Len(saved_paths)]
    /\ all_data = <<>>
    /\ mainPc = "collecting"

\* get_file_lock: with _locks_lock (entered).
EnterLocksLock(t) ==
    /\ taskPc[t] = "start"
    /\ locks_lock = 0
    /\ locks_lock' = t
    /\ taskPc' = [taskPc EXCEPT ![t] = "in_get_file_lock"]
    /\ UNCHANGED <<saved_paths, file_locks, lock_holder, my_lock, task_result, collected,
                   stats, all_data, mainPc>>

\* get_file_lock: the body of the with block and its exit.
GetFileLock(t) ==
    /\ taskPc[t] = "in_get_file_lock"
    /\ locks_lock = t
    /\ \E after \in {FileLocksAfter(file_locks, saved_paths[t],
                                     Cardinality({l \in Tasks : \E u \in Tasks : my_lock[u] = l}
                                                 \cup {file_locks[p] : p \in DOMAIN file_locks}) + 1)} :
           /\ file_locks' = after
           /\ my_lock' = [my_lock EXCEPT ![t] = after[saved_paths[t]]]
    /\ locks_lock' = 0
    /\ taskPc' = [taskPc EXCEPT ![t] = "sleep"]
    /\ UNCHANGED <<saved_paths, lock_holder, task_result, collected, stats, all_data, mainPc>>

\* api_rate_limit_sleep()
RateLimitSleep(t) ==
    /\ taskPc[t] = "sleep"
    /\ taskPc' = [taskPc EXCEPT ![t] = "acquire"]
    /\ UNCHANGED <<saved_paths, file_locks, locks_lock, lock_holder, my_lock, task_result,
                   collected, stats, all_data, mainPc>>

\* with file_lock: (entered)
AcquireFileLock(t) ==
    /\ taskPc[t] = "acquire"
    /\ lock_holder[my_lock[t]] = 0
    /\ lock_holder' = [lock_holder EXCEPT ![my_lock[t]] = t]
    /\ taskPc' = [taskPc EXCEPT ![t] = "locked"]
    /\ UNCHANGED <<saved_paths, file_locks, locks_lock, my_lock, task_result, collected,
                   stats, all_data, mainPc>>

\* validate_file_size: the file is too large and the error result is
\* returned, or read_purchase_order is called.
ValidateFileSize(t) ==
    /\ taskPc[t] = "locked"
    /\ \/ /\ task_result' = [task_result EXCEPT ![t] = ErrorResult(saved_paths[t], "size")]
          /\ taskPc' = [taskPc EXCEPT ![t] = "leaving"]
       \/ /\ taskPc' = [taskPc EXCEPT ![t] = "extracting"]
          /\ UNCHANGED task_result
    /\ UNCHANGED <<saved_paths, file_locks, locks_lock, lock_holder, my_lock, collected,
                   stats, all_data, mainPc>>

\* read_purchase_order returns or raises, and the body of the with block
\* returns the result of the task.
FinishExtraction(t) ==
    /\ taskPc[t] = "extracting"
    /\ \E res \in TaskOutcomes(saved_paths[t]) \ {ErrorResult(saved_paths[t], "size")} :
           task_result' = [task_result EXCEPT ![t] = res]
    /\ taskPc' = [taskPc EXCEPT ![t] = "leaving"]
    /\ UNCHANGED <<saved_paths, file_locks, locks_lock, lock_holder, my_lock, collected,
                   stats, all_data, mainPc>>

\* The exit of with file_lock: the lock is released and the future completes.
ReleaseFileLock(t) ==
    /\ taskPc[t] = "leaving"
    /\ lock_holder' = [lock_holder EXCEPT ![my_lock[t]] = 0]
    /\ taskPc' = [taskPc EXCEPT ![t] = "done"]
    /\ UNCHANGED <<saved_paths, file_locks, locks_lock, my_lock, task_result, collected,
                   stats, all_data, mainPc>>

\* One turn of the loop over as_completed(futures).
Collect(t) ==
    /\ mainPc = "collecting"
    /\ taskPc[t] = "done"
    /\ t \notin collected
    /\ collected' = collected \cup {t}
    /\ IF task_result[t].status = "success"
       THEN /\ stats' = add_success(stats, Len(task_result[t].items))
            /\ all_data' = all_data \o task_result[t].items
       ELSE /\ stats' = add_failure(stats)
            /\ UNCHANGED all_data
    /\ UNCHANGED <<saved_paths, taskPc, file_locks, locks_lock, lock_holder, my_lock,
                   task_result, mainPc>>

\* The loop is over: the executor is left and stats.finish() is called.
FinishBatch ==
    /\ mainPc = "collecting"
    /\ collected = Tasks
    /\ mainPc' = "joined"
    /\ UNCHANGED <<saved_paths, taskPc, file_locks, locks_lock, lock_holder, my_lock,
                   task_result, collected, stats, all_data>>

----------------------------------------------------------------------------
(* One file through process_single_file, read_purchase_order and
   extract_items_with_template, in one thread *)

\* MAX_RETRIES = 3
MAX_RETRIES == 3

\* The longest items list a reply of the model carries.
MaxEntries == 2

\* os.path.basename: the last component of the path.
basename(path) == path[Len(path)]

FilePathPool == { <<"uploads", "a.pdf">>, <<"b.png">> }

\* dict.get(key, default)
Get(d, key, default) == IF key \in DOMAIN d THEN d[key] ELSE default

ReplyEntry(q, lp, d, up, a, raw) ==
    [Quantity |-> q,
     PriceFields |-> [ListPrice |-> lp, Discount |-> d, UnitPrice |-> up, Amount |-> a],
     RawPrices |-> raw, Remarks |-> Str(<<>>)]

\* An entry whose "PriceFields" is null: price_fields.get raises (line 328).
NullPriceEntry ==
    [Quantity |-> Str(<<"4", "0">>), PriceFields |-> None, RawPrices |-> None,
     Remarks |-> Str(<<>>)]

\* Entries of a reply: 40 x 200 = 8000; 40 x 210.01 against 8400; 40 x 100
\* against 8000; prices only in RawPrices; nothing filled in; a null
\* PriceFields.
ReplyEntryPool ==
    { ReplyEntry(Str(<<"4", "0">>), Str(<<"2", "5", "0">>), Str(<<"8", "0">>),
                 Str(<<"2", "0", "0">>), Str(<<"8", "0", "0", "0">>), None),
      ReplyEntry(Str(<<"4", "0">>), Str(<<>>), None,
                 Str(<<"2", "1", "0", ".", "0", "1">>), Str(<<"8", "4", "0", "0">>), None),
      ReplyEntry(Str(<<"4", "0">>), Str(<<"2", "5", "0">>), Str(<<"8", "0">>),
                 Str(<<"1", "0", "0">>), Str(<<"8", "0", "0", "0">>), None),
      ReplyEntry(Str(<<"4", "0">>), Str(<<>>), None, Str(<<>>), Str(<<>>),
                 Str(<<"2", "5", "0", " ", "8", "0", " ", "2", "0", "0", " ",
                       "8", "0", "0", "0">>)),
      ReplyEntry(Str(<<>>), Str(<<>>), None, Str(<<>>), Str(<<>>), None),
      NullPriceEntry }

\* data.get("items", []) of a reply that parsed.
ReplyItemLists == UNION { [1..n -> ReplyEntryPool] : n \in 0..MaxEntries }

\* price_fields.get on a value that is no dict raises AttributeError.
RaisesOn(entry) == "k" \in DOMAIN entry.PriceFields

\* A wait after every failed attempt, the last one too.
SleepsAfter_Always(attempt_no) == TRUE

\* if attempt < MAX_RETRIES - 1: time.sleep(2)
SleepsAfter(attempt_no) == attempt_no < MAX_RETRIES - 1

NoReturn == [kind |-> "none", items |-> <<>>, errors |-> <<>>, exc |-> ""]
Raised(exc) == [kind |-> "raised", items |-> <<>>, errors |-> <<>>, exc |-> exc]
Returned(its, errors) == [kind |-> "returned", items |-> its, errors |-> errors, exc |-> ""]

\* The item dict under the names perform_math_check reads: "採購數", "單價",
\* "金額"; "_稽核狀態", "_稽核訊息" and "_來源檔案" are not written yet.
AsAuditItem(d) ==
    [qty |-> Str(d.qty), price |-> d.unit, amount |-> d.amount,
     list |-> d.list, discount |-> d.discount,
     confidence |-> d.confidence, remark |-> d.remark,
     status |-> "", msg |-> NoMsg, source |-> ""]

RECURSIVE SumAmounts(_)
\* sum(x["金額"] for x in checked_items), in hundredths
SumAmounts(checked) ==
    IF checked = <<>> THEN 0 ELSE Head(checked).amount.v + SumAmounts(Tail(checked))

CountStatus(checked, status) ==
    Cardinality({ i \in 1..Len(checked) : checked[i].status = status })

\* The warnings counted as errors too.
Summary_WarningsAsErrors(checked) ==
    [total_items   |-> Len(checked),
     error_items   |-> CountStatus(checked, StatusFailure)
                         + CountStatus(checked, StatusWarning),
     warning_items |-> CountStatus(checked, StatusWarning),
     calculated_total_amount |-> SumAmounts(checked)]

\* The "summary" of a success result (lines 118-129).
Summary(checked) ==
    [total_items   |-> Len(checked),
     error_items   |-> CountStatus(checked, StatusFailure),
     warning_items |-> CountStatus(checked, StatusWarning),
     calculated_total_amount |-> SumAmounts(checked)]

\* A text with the values formatted into it.
Text(text, detail) == [text |-> text, detail |-> detail]

ReadError(text, detail) == [status |-> "error", message |-> Text(text, detail)]
ReadSuccess(path, checked) ==
    [status |-> "success", file_processed |-> path, summary |-> Summary(checked),
     data |-> checked]

\* read_purchase_order from the point where extract_items_with_template
\* returns or raises (lines 105-137).
read_purchase_order(path, ret) ==
    IF ret.kind = "raised" THEN ReadError("tool raised", <<ret.exc>>)
    ELSE IF ret.items = <<>> THEN ReadError("no data from OCR", ret.errors)
    ELSE ReadSuccess(path,
             perform_math_check([i \in 1..Len(ret.items) |-> AsAuditItem(ret.items[i])],
                                DefaultTolerance))

\* item["_來源檔案"] = file_name, for every item in turn (lines 91-95).
TaggedItems(its, file_name) == [i \in 1..Len(its) |-> [its[i] EXCEPT !.source = file_name]]

\* process_single_file from the point where read_purchase_order returns
\* (lines 89-101).
FileResultOf(file_name, res) ==
    IF res.status = "success"
    THEN [file |-> file_name, status |-> "success",
          items |-> TaggedItems(Get(res, "data", <<>>), file_name), error |-> None]
    ELSE ErrorResult(file_name, Get(res, "error", Text("unknown error", <<>>)))

NoAttempt == <<>>
NoReadResult == [status |-> ""]

PipeIdle ==
    /\ file_path = <<>>
    /\ pipePc = "idle"
    /\ attempt = 0
    /\ attempt_log = NoAttempt
    /\ items_list = <<>>
    /\ attempt_items = <<>>
    /\ sample_file = "none"
    /\ delete_calls = 0
    /\ extract_return = NoReturn
    /\ read_result = NoReadResult
    /\ file_result = NoResult

\* process_single_file is called for a path; nothing is uploaded yet.
PipeInit ==
    /\ file_path \in FilePathPool
    /\ pipePc = "validate_size"
    /\ attempt = 0
    /\ attempt_log = NoAttempt
    /\ items_list = <<>>
    /\ attempt_items = <<>>
    /\ sample_file = "none"
    /\ delete_calls = 0
    /\ extract_return = NoReturn
    /\ read_result = NoReadResult
    /\ file_result = NoResult

\* process_single_file, lines 86-88: the size check, then the call of
\* read_purchase_order.
CheckFileSize ==
    /\ pipePc = "validate_size"
    /\ \/ /\ file_result' = ErrorResult(basename(file_path), Text("file too large", <<>>))
          /\ pipePc' = "file_done"
       \/ /\ pipePc' = "check_path"
          /\ UNCHANGED file_result
    /\ UNCHANGED <<file_path, attempt, attempt_log, items_list, attempt_items, sample_file,
                   delete_calls, extract_return, read_result>>

\* extract_items_with_template, lines 204-205: a missing file raises before
\* the try statement.
CheckPathExists ==
    /\ pipePc = "check_path"
    /\ \/ /\ extract_return' = Raised("file not found")
          /\ pipePc' = "extract_exit"
       \/ /\ pipePc' = "upload"
          /\ UNCHANGED extract_return
    /\ UNCHANGED <<file_path, attempt, attempt_log, items_list, attempt_items, sample_file,
                   delete_calls, read_result, file_result>>

\* Line 273: genai.upload_file returns the file object or raises; the raise
\* leaves through the finally clause with sample_file still None.
UploadFile ==
    /\ pipePc = "upload"
    /\ \/ /\ sample_file' = "uploaded"
          /\ pipePc' = "attempt"
          /\ UNCHANGED extract_return
       \/ /\ extract_return' = Raised("upload failed")
          /\ pipePc' = "finally"
          /\ UNCHANGED sample_file
    /\ UNCHANGED <<file_path, attempt, attempt_log, items_list, attempt_items,
                   delete_calls, read_result, file_result>>

\* The except clause of an attempt (lines 380-385): the error is noted, the
\* wait is made unless this was the last attempt, and the loop goes on.
FailAttempt(error) ==
    /\ attempt_log' = Append(attempt_log, [outcome |-> error, slept |-> SleepsAfter(attempt)])
    /\ attempt' = attempt + 1
    /\ pipePc' = IF attempt + 1 < MAX_RETRIES THEN "attempt" ELSE "exhausted"

\* Lines 278-305: the model is asked and its reply parsed; final_items
\* starts empty.
AskModel ==
    /\ pipePc = "attempt"
    /\ attempt < MAX_RETRIES
    /\ \/ /\ \E error \in {"api error", "no JSON in reply"} : FailAttempt(error)
          /\ UNCHANGED <<items_list, attempt_items>>
       \/ /\ \E reply \in ReplyItemLists : items_list' = reply
          /\ attempt_items' = <<>>
          /\ pipePc' = "items"
          /\ UNCHANGED <<attempt, attempt_log>>
    /\ UNCHANGED <<file_path, sample_file, delete_calls, extract_return, read_result,
                   file_result>>

\* One pass of the loop over items_list (lines 308-374): the item is
\* appended, or the pass raises and the attempt ends in the except clause.
ProcessEntry ==
    /\ pipePc = "items"
    /\ Len(attempt_items) < Len(items_list)
    /\ \E entry \in {items_list[Len(attempt_items) + 1]} :
          \/ /\ RaisesOn(entry)
             /\ FailAttempt("entry raised")
             /\ UNCHANGED attempt_items
          \/ /\ ~RaisesOn(entry)
             /\ \E r \in {extract_item(entry)} :
                    attempt_items' = Append(attempt_items, r.item_dict)
             /\ UNCHANGED <<attempt, attempt_log, pipePc>>
    /\ UNCHANGED <<file_path, items_list, sample_file, delete_calls, extract_return,
                   read_result, file_result>>

\* Lines 376-379: return final_items, [] once every entry is processed.
ReturnItems ==
    /\ pipePc = "items"
    /\ Len(attempt_items) = Len(items_list)
    /\ attempt_log' = Append(attempt_log, [outcome |-> "ok", slept |-> FALSE])
    /\ extract_return' = Returned(attempt_items, <<>>)
    /\ pipePc' = "finally"
    /\ UNCHANGED <<file_path, attempt, items_list, attempt_items, sample_file, delete_calls,
                   read_result, file_result>>

\* Lines 387-388: the loop ran out.
ReturnExhausted ==
    /\ pipePc = "exhausted"
    /\ extract_return' = Returned(<<>>, <<"max retries exceeded">>)
    /\ pipePc' = "finally"
    /\ UNCHANGED <<file_path, attempt, attempt_log, items_list, attempt_items, sample_file,
                   delete_calls, read_result, file_result>>

\* The finally clause (lines 390-395): genai.delete_file is called when a
\* file was uploaded; a delete that raises is swallowed and leaves the file.
Finally ==
    /\ pipePc = "finally"
    /\ \/ /\ sample_file = "none"
          /\ UNCHANGED <<sample_file, delete_calls>>
       \/ /\ sample_file = "uploaded"
          /\ delete_calls' = delete_calls + 1
          /\ \/ sample_file' = "deleted"
             \/ UNCHANGED sample_file
    /\ pipePc' = "extract_exit"
    /\ UNCHANGED <<file_path, attempt, attempt_log, items_list, attempt_items,
                   extract_return, read_result, file_result>>

\* read_purchase_order after the call of the extraction (lines 105-137).
ReadPurchaseOrder ==
    /\ pipePc = "extract_exit"
    /\ read_result' = read_purchase_order(file_path, extract_return)
    /\ pipePc' = "read_exit"
    /\ UNCHANGED <<file_path, attempt, attempt_log, items_list, attempt_items, sample_file,
                   delete_calls, extract_return, file_result>>

\* process_single_file after the call of read_purchase_order (lines 89-101).
ReturnFileResult ==
    /\ pipePc = "read_exit"
    /\ file_result' = FileResultOf(basename(file_path), read_result)
    /\ pipePc' = "file_done"
    /\ UNCHANGED <<file_path, attempt, attempt_log, items_list, attempt_items, sample_file,
                   delete_calls, extract_return, read_result>>

----------------------------------------------------------------------------
(* Specifications: one per function *)

\* Every function but the one a specification is about is idle.
CoreIdle == AuditIdle /\ AllocIdle /\ ExtractIdle
LaterIdle == NormIdle /\ ReallocIdle /\ BatchIdle /\ PipeIdle

InitAudit == AuditInit /\ AllocIdle /\ ExtractIdle /\ LaterIdle
NextAudit == PerformMathCheck /\ UNCHANGED <<allocVars, extractVars, laterVars>>
SpecAudit == InitAudit /\ [][NextAudit]_vars

InitAuditList == AuditListInit /\ AllocIdle /\ ExtractIdle /\ LaterIdle
SpecAuditList == InitAuditList /\ [][NextAudit]_vars

InitAlloc == AllocInit /\ AuditIdle /\ ExtractIdle /\ LaterIdle
NextAlloc == AllocatePricesSmart /\ UNCHANGED <<auditVars, extractVars, laterVars>>
SpecAlloc == InitAlloc /\ [][NextAlloc]_vars

InitExtract == ExtractInit /\ AuditIdle /\ AllocIdle /\ LaterIdle
NextExtract == ExtractItem /\ UNCHANGED <<auditVars, allocVars, laterVars>>
SpecExtract == InitExtract /\ [][NextExtract]_vars

InitNorm == NormInit /\ CoreIdle /\ ReallocIdle /\ BatchIdle /\ PipeIdle
NormFrame == UNCHANGED <<coreVars, reallocVars, batchVars, pipeVars>>
NextNorm ==
    \/ CleanMoney /\ NormFrame
    \/ CleanNum /\ NormFrame
SpecNorm == InitNorm /\ [][NextNorm]_vars

InitRealloc == ReallocInit /\ CoreIdle /\ NormIdle /\ BatchIdle /\ PipeIdle
NextRealloc == CallAllocate /\ UNCHANGED <<coreVars, normVars, batchVars, pipeVars>>
SpecRealloc == InitRealloc /\ [][NextRealloc]_vars

InitBatch == BatchInit /\ CoreIdle /\ NormIdle /\ ReallocIdle /\ PipeIdle
BatchFrame == UNCHANGED <<coreVars, normVars, reallocVars, pipeVars>>
NextBatch ==
    \/ \E t \in Tasks : EnterLocksLock(t) /\ BatchFrame
    \/ \E t \in Tasks : GetFileLock(t) /\ BatchFrame
    \/ \E t \in Tasks : RateLimitSleep(t) /\ BatchFrame
    \/ \E t \in Tasks : AcquireFileLock(t) /\ BatchFrame
    \/ \E t \in Tasks : ValidateFileSize(t) /\ BatchFrame
    \/ \E t \in Tasks : FinishExtraction(t) /\ BatchFrame
    \/ \E t \in Tasks : ReleaseFileLock(t) /\ BatchFrame
    \/ \E t \in Tasks : Collect(t) /\ BatchFrame
    \/ FinishBatch /\ BatchFrame
SpecBatch == InitBatch /\ [][NextBatch]_vars

InitPipeline == PipeInit /\ CoreIdle /\ NormIdle /\ ReallocIdle /\ BatchIdle
PipeFrame == UNCHANGED <<coreVars, normVars, reallocVars, batchVars>>
NextPipeline ==
    \/ CheckFileSize /\ PipeFrame
    \/ CheckPathExists /\ PipeFrame
    \/ UploadFile /\ PipeFrame
    \/ AskModel /\ PipeFrame
    \/ ProcessEntry /\ PipeFrame
    \/ ReturnItems /\ PipeFrame
    \/ ReturnExhausted /\ PipeFrame
    \/ Finally /\ PipeFrame
    \/ ReadPurchaseOrder /\ PipeFrame
    \/ ReturnFileResult /\ PipeFrame
SpecPipeline == InitPipeline /\ [][NextPipeline]_vars

----------------------------------------------------------------------------
(* Pass B claims.  After the call every item holds its cleaned quantity,    *)
(* unit price and amount; the formulas below read them back from the item. *)

Checked == auditPc = "return"
\* The recorded amount, the calculated amount and their difference of item i,
\* in ten-thousandths.
AmountOf(i) == items[i].amount.v * 100
ExpectedOf(i) == items[i].qty.v * items[i].price.v
DiffOf(i) == Abs(AmountOf(i) - ExpectedOf(i))
\* r is x (ten-thousandths) to the nearest multiple of unit.
Nearest(r, x, unit) == 2 * Abs(r * unit - x) <= unit

\* C1 as stated: an item whose amount equals quantity*unitPrice exactly gets
\* the verdict Pass with the message "perfect match", for every quantity and price.
C1_ExactProductPasses ==
    Checked => \A i \in 1..Len(items) :
        AmountOf(i) = ExpectedOf(i) =>
            items[i].status = StatusPass /\ items[i].msg.text = "perfect match"

\* C1 amended: an item whose amount equals quantity*unitPrice exactly and is
\* not zero gets the verdict Pass with the message "perfect match".
C1_ExactNonZeroProductPasses ==
    Checked => \A i \in 1..Len(items) :
        (AmountOf(i) = ExpectedOf(i) /\ ExpectedOf(i) # 0) =>
            items[i].status = StatusPass /\ items[i].msg.text = "perfect match"

C1_Witness ==
    Checked /\ \E i \in 1..Len(items) :
        AmountOf(i) = ExpectedOf(i) /\ ExpectedOf(i) # 0 /\ items[i].status = StatusPass

\* The failure message carries the recorded amount, the calculated amount and
\* their difference, each printed as the nearest whole number.
FailureMessageOf(i) ==
    /\ Len(items[i].msg.nums) = 3
    /\ Nearest(items[i].msg.nums[1], AmountOf(i), 10000)
    /\ Nearest(items[i].msg.nums[2], ExpectedOf(i), 10000)
    /\ Nearest(items[i].msg.nums[3], DiffOf(i), 10000)

\* C2 as stated: for every tolerance, an item with |amount - quantity*unitPrice|
\* above the tolerance gets the verdict Failure and its message carries the
\* recorded amount, the calculated amount and their difference.
C2_AboveToleranceFails ==
    Checked => \A i \in 1..Len(items) :
        DiffOf(i) > tolerance => items[i].status = StatusFailure /\ FailureMessageOf(i)

\* C2 amended: an item with |amount - quantity*unitPrice| above the tolerance
\* and not below 0.01 gets the verdict Failure and its message carries the
\* recorded amount, the calculated amount and their difference (as whole numbers).
C2_AboveToleranceAndCutoffFails ==
    Checked => \A i \in 1..Len(items) :
        (DiffOf(i) > tolerance /\ DiffOf(i) >= PassCutoff) =>
            items[i].status = StatusFailure /\ FailureMessageOf(i)

C2_Witness ==
    Checked /\ \E i \in 1..Len(items) :
        /\ DiffOf(i) > tolerance /\ tolerance = DefaultTolerance
        /\ items[i].status = StatusFailure
        /\ items[i].msg.nums[1] # items[i].msg.nums[2]

\* C3: an item with 0.01 <= |amount - quantity*unitPrice| <= tolerance gets the
\* verdict Warning, and its message carries the difference (to two decimals).
C3_WithinToleranceWarns ==
    Checked => \A i \in 1..Len(items) :
        (PassCutoff <= DiffOf(i) /\ DiffOf(i) <= tolerance) =>
            /\ items[i].status = StatusWarning
            /\ Len(items[i].msg.nums) = 1
            /\ Nearest(items[i].msg.nums[1], DiffOf(i), 100)

C3_Witness ==
    Checked /\ \E i \in 1..Len(items) :
        DiffOf(i) = tolerance /\ tolerance > PassCutoff /\ items[i].status = StatusWarning

\* C4: an item whose cleaned amount is 0 and whose quantity*unitPrice is 0 gets
\* the verdict Indeterminate, whatever its quantity and price are, and never Pass.
C4_ZeroIsIndeterminate ==
    Checked => \A i \in 1..Len(items) :
        (AmountOf(i) = 0 /\ ExpectedOf(i) = 0) =>
            items[i].status = StatusPending /\ items[i].msg.text = "zero or blank"

C4_Witness ==
    Checked /\ \E i \in 1..Len(items) :
        /\ AmountOf(i) = 0 /\ ExpectedOf(i) = 0
        /\ items[i].price.v # 0
        /\ items[i].status = StatusPending

----------------------------------------------------------------------------
(* Price Reconciler claims.  "Usable tokens" are the tokens the filter of   *)
(* allocate_prices_smart keeps; Prices is their list of values, in reading *)
(* order, and Qty the parsed quantity, both as the call left them.         *)

Allocated == allocPc = "return"
Prices == alloc_prices
Qty == alloc_qty
\* The largest common divisor of Qty and 100, and the distance of price p
\* from MaxPrice/Qty in units of 1/(Qty*100) reduced by it.
Common ==
    CHOOSE d \in {1, 2, 4, 5, 10, 20, 25, 50, 100} :
        /\ Qty % d = 0
        /\ \A e \in {1, 2, 4, 5, 10, 20, 25, 50, 100} : Qty % e = 0 => e <= d
Gap(p, amount) == Abs(p * (Qty \div Common) - amount * (100 \div Common))
Positions == 1..Len(Prices)
FieldNames == {"list", "discount", "unit", "amount"}
\* The positions the call assigned to a field.
Assigned == {picked[f] : f \in FieldNames} \ {0}

MaxPrice == CHOOSE m \in {Prices[i] : i \in Positions} : \A i \in Positions : Prices[i] <= m
MinPrice == CHOOSE m \in {Prices[i] : i \in Positions} : \A i \in Positions : m <= Prices[i]

\* The amount is the maximum token, taken from position picked.amount.
AmountIsMax ==
    /\ picked.amount \in Positions
    /\ result.amount = <<MaxPrice>>
    /\ Prices[picked.amount] = MaxPrice

\* The unit price is, among the tokens other than the amount's, the closest to
\* amount/quantity when the quantity is positive and the largest otherwise.
UnitIsClosestOrLargest ==
    /\ picked.unit \in Positions \ {picked.amount}
    /\ result.unit = <<Prices[picked.unit]>>
    /\ \A j \in Positions \ {picked.amount} :
          IF Qty > 0
          THEN Gap(Prices[picked.unit], MaxPrice) <= Gap(Prices[j], MaxPrice)
          ELSE Prices[j] <= Prices[picked.unit]

\* C5: with 4 or more usable tokens the amount is the maximum token, the unit
\* price the remaining token closest to amount/quantity (quantity > 0) or the
\* largest remaining one, the discount the smallest token remaining after that,
\* the list price the first token still remaining; the other tokens are not
\* used.  Tokens 250 80 200 8000 with quantity 40 give amount 8000, unit price
\* 200, discount 80 and list price 250.
C5_FourOrMoreTokens ==
    Allocated =>
      /\ Len(Prices) >= 4 =>
            /\ AmountIsMax
            /\ UnitIsClosestOrLargest
            /\ picked.discount \in Positions \ {picked.amount, picked.unit}
            /\ result.discount = <<Prices[picked.discount]>>
            /\ \A j \in Positions \ {picked.amount, picked.unit} :
                  Prices[picked.discount] <= Prices[j]
            /\ picked.list \in Positions \ {picked.amount, picked.unit, picked.discount}
            /\ result.list = <<Prices[picked.list]>>
            /\ \A j \in Positions \ {picked.amount, picked.unit, picked.discount} :
                  picked.list <= j
      /\ ( /\ raw_prices_str = <<"2", "5", "0", " ", "8", "0", " ", "2", "0", "0", " ",
                                 "8", "0", "0", "0">>
           /\ quantity = <<"4", "0">> )
         => result = [amount |-> <<800000>>, unit |-> <<20000>>,
                      discount |-> <<8000>>, list |-> <<25000>>]

C5_Witness ==
    /\ Allocated
    /\ Len(Prices) = 5
    /\ Qty > 0
    /\ Cardinality({Prices[i] : i \in Positions}) >= 4
    /\ result.list # result.discount
    /\ Cardinality(Assigned) = 4

\* C6: with exactly 3 usable tokens the amount is the maximum token, the unit
\* price the remaining token closest to amount/quantity (quantity > 0) or the
\* larger remaining one, and the leftover token is the discount (list price
\* empty) if it is smaller than the unit price and below 150, the list price
\* (discount empty) otherwise.
C6_ThreeTokens ==
    (Allocated /\ Len(Prices) = 3) =>
        /\ AmountIsMax
        /\ UnitIsClosestOrLargest
        /\ LET last == CHOOSE j \in Positions : j \notin {picked.amount, picked.unit}
           IN  IF Prices[last] < Prices[picked.unit] /\ Prices[last] < 15000
               THEN result.discount = <<Prices[last]>> /\ result.list = <<>>
               ELSE result.list = <<Prices[last]>> /\ result.discount = <<>>
        /\ (result.list = <<>>) # (result.discount = <<>>)

C6_Witness ==
    /\ Allocated
    /\ Len(Prices) = 3
    /\ Qty > 0
    /\ result.discount # <<>>
    /\ result.list = <<>>
    /\ result.unit # result.amount

\* C7: with exactly 2 usable tokens, for any quantity, the unit price is the
\* smaller token, the amount the larger one, list price and discount are empty.
C7_TwoTokens ==
    (Allocated /\ Len(Prices) = 2) =>
        /\ result.unit = <<MinPrice>>
        /\ result.amount = <<MaxPrice>>
        /\ result.list = <<>>
        /\ result.discount = <<>>

C7_Witness ==
    /\ Allocated
    /\ Len(Prices) = 2
    /\ Prices[1] > Prices[2]
    /\ Qty > 0
    /\ result.unit = <<Prices[2]>>
    /\ result.amount = <<Prices[1]>>

\* C8: with no usable token, and with exactly one usable token, all four
\* fields are empty.
C8_NoneOrOneToken ==
    (Allocated /\ Len(Prices) <= 1) =>
        result = [list |-> <<>>, discount |-> <<>>, unit |-> <<>>, amount |-> <<>>]

C8_Witness ==
    /\ Allocated
    /\ Len(Prices) = 1
    /\ Prices[1] > 0
    /\ result.amount = <<>>
    /\ result.unit = <<>>

\* How many filled fields hold the value x, and how many tokens have it.
FieldsWith(x) == Cardinality({f \in FieldNames : result[f] = <<x>>})
TokensWith(x) == Cardinality({i \in Positions : Prices[i] = x})

\* C9: no token position is assigned to two fields (equal values at different
\* positions may fill different fields), and a tie for the maximum, the
\* minimum or the closest-to-target selection goes to the first position in
\* reading order.
C9_NoReuseFirstWins ==
    Allocated =>
      \* every value is used at most as often as it occurs among the tokens
      /\ \A i \in Positions : FieldsWith(Prices[i]) <= TokensWith(Prices[i])
      /\ \A f \in FieldNames : result[f] # <<>> => \E i \in Positions : result[f] = <<Prices[i]>>
      /\ Len(Prices) >= 3 =>
            \* the filled fields come from pairwise different positions
            /\ \A f \in FieldNames : (result[f] # <<>>) <=> (picked[f] # 0)
            /\ \A f, g \in FieldNames : (f # g /\ picked[f] # 0) => picked[f] # picked[g]
            \* amount: the first maximum
            /\ \A j \in Positions : j < picked.amount => Prices[j] < Prices[picked.amount]
            \* unit price: the first closest (quantity > 0) or the first largest
            /\ \A j \in Positions \ {picked.amount} :
                  j < picked.unit =>
                     IF Qty > 0
                     THEN Gap(Prices[j], Prices[picked.amount])
                              > Gap(Prices[picked.unit], Prices[picked.amount])
                     ELSE Prices[j] < Prices[picked.unit]
      /\ Len(Prices) >= 4 =>
            \* discount: the first minimum of what remains
            \A j \in Positions \ {picked.amount, picked.unit} :
                j < picked.discount => Prices[j] > Prices[picked.discount]

C9_Witness ==
    /\ Allocated
    /\ Len(Prices) >= 4
    /\ result.list = result.amount
    /\ picked.list > picked.amount
    /\ \E j \in Positions \ {picked.unit} :
          /\ j > picked.unit
          /\ Prices[j] = Prices[picked.unit]

\* The values of the tokens whose cleaned value is not zero, in reading order.
RECURSIVE NonZeroValues(_)
NonZeroValues(tokens) ==
    IF tokens = <<>> THEN <<>>
    ELSE (IF DecimalVal(clean_money(Head(tokens))) # 0
          THEN <<DecimalVal(clean_money(Head(tokens)))>> ELSE <<>>)
         \o NonZeroValues(Tail(tokens))

\* C10: every raw token whose cleaned value is zero is discarded before the
\* allocation: the result is the allocation of the tokens with a non-zero
\* value (their number selects the branch), and no field is filled with a zero.
C10_ZeroTokensDiscarded ==
    Allocated =>
      /\ result = Allocate(NonZeroValues(Split(raw_prices_str)), Qty).result
      /\ \A f \in FieldNames : result[f] # <<0>>

----------------------------------------------------------------------------
(* Extraction and Pass A claims.  The formulas read the entry, the item     *)
(* built from it and what validate_prices returned for it.                  *)

Extracted == extractPc = "appended"

\* The upstream record supplies a value: not null, not "" and not the number 0.
Supplied(val) == val \notin {None, Str(<<>>), Num(0)}
StructuredSupplied ==
    Supplied(cur_entry.PriceFields.UnitPrice) \/ Supplied(cur_entry.PriceFields.Amount)

ItemPrices ==
    [list |-> item_dict.list, discount |-> item_dict.discount,
     unit |-> item_dict.unit, amount |-> item_dict.amount]
StructuredPrices ==
    [list |-> cur_entry.PriceFields.ListPrice, discount |-> cur_entry.PriceFields.Discount,
     unit |-> cur_entry.PriceFields.UnitPrice, amount |-> cur_entry.PriceFields.Amount]

\* The item the same entry gives with other raw price tokens.
WithRawPrices(raw) == extract_item([cur_entry EXCEPT !.RawPrices = raw]).item_dict

\* C11: the fallback allocation is called at most once for an item, and only
\* when the entry supplies neither a structured unit price nor a structured
\* amount; when one of them is supplied the four price fields of the item are
\* the structured fields, and whatever the raw price tokens are, the price
\* fields and the confidence of the item are the same.
C11_FallbackOnlyWithoutStructured ==
    Extracted =>
        /\ alloc_calls <= 1
        /\ item_used_fallback <=> alloc_calls = 1
        /\ alloc_calls = 1 => ~StructuredSupplied
        /\ StructuredSupplied =>
              /\ ItemPrices = StructuredPrices
              /\ \A raw \in RawPricesPool :
                    LET other == WithRawPrices(raw)
                    IN  /\ other.list = item_dict.list
                        /\ other.discount = item_dict.discount
                        /\ other.unit = item_dict.unit
                        /\ other.amount = item_dict.amount
                        /\ other.confidence = item_dict.confidence

\* A structured amount beside raw price tokens that would allocate four fields.
C11_Witness ==
    /\ Extracted
    /\ StructuredSupplied
    /\ Truthy(cur_entry.RawPrices)
    /\ Len(PricesOf(cur_entry.RawPrices.s)) = 4
    /\ alloc_calls = 0
    /\ ItemPrices = StructuredPrices

\* What Pass A read from the item: the four prices and the quantity.
Field(val) == FloatOrZero(val)
Parsed ==
    /\ Field(item_dict.list).ok /\ Field(item_dict.discount).ok
    /\ Field(item_dict.unit).ok /\ Field(item_dict.amount).ok
ListPrice == Field(item_dict.list).v
Discount == Field(item_dict.discount).v
UnitPrice == Field(item_dict.unit).v
Amount == Field(item_dict.amount).v
Quantity == DecimalVal(item_dict.qty)

Recorded(kind) ==
    \E i \in 1..Len(item_validation.warnings) : item_validation.warnings[i].kind = kind

\* x is more than 5% away from expected (both in one unit, expected > 0).  A
\* difference above a tenth of expected is above 5% of it; the product is
\* formed for the smaller differences only.
OffByMoreThanFivePercent(x, expected) ==
    LET d == Abs(x - expected)
    IN  d > expected \div 10 \/ 20 * d > expected

\* amount against unitPrice * quantity, in ten-thousandths.
AmountIsOff ==
    /\ UnitPrice > 0 /\ Quantity > 0 /\ Amount > 0
    /\ OffByMoreThanFivePercent(Amount * 100, UnitPrice * Quantity)

\* C12: for an item whose prices all parse, the amount warning is recorded, and
\* 0.3 taken off the confidence, exactly when unit price, quantity and amount
\* are positive and the amount is more than 5% away from unit price * quantity;
\* exactly 5%, or an operand that is not positive, records nothing.
C12_AmountCheck ==
    (Extracted /\ Parsed) =>
        /\ Recorded(WarnAmount) <=> AmountIsOff
        /\ item_validation.confidence =
              100 - (IF AmountIsOff THEN 30 ELSE 0) - (IF Recorded(WarnUnit) THEN 20 ELSE 0)

\* An amount exactly 5% above unit price * quantity: nothing is recorded.
C12_Witness ==
    /\ Extracted /\ Parsed
    /\ UnitPrice > 0 /\ Quantity > 0
    /\ 20 * Amount * 100 = 21 * UnitPrice * Quantity
    /\ ~Recorded(WarnAmount)
    /\ item_validation.confidence = 100

\* listPrice * rate and unitPrice in one unit: millionths when the discount is
\* a percentage (greater than 1), ten-thousandths when it is a fraction.
DiscountIsPercentage == Discount > 100
ExpectedUnitPrice == ListPrice * Discount
UnitPriceScaled == IF DiscountIsPercentage THEN UnitPrice * 10000 ELSE UnitPrice * 100

\* C13: with list price, discount and unit price positive, the discount is a
\* percentage when it is greater than 1 and a fraction otherwise, and the
\* unit-price warning is recorded, and 0.2 taken off the confidence, exactly
\* when the unit price is more than 5% away from list price * rate.
C13_UnitPriceCheck ==
    (Extracted /\ Parsed /\ ListPrice > 0 /\ Discount > 0 /\ UnitPrice > 0) =>
        LET off == OffByMoreThanFivePercent(UnitPriceScaled, ExpectedUnitPrice)
        IN  /\ Recorded(WarnUnit) <=> off
            /\ item_validation.confidence =
                  100 - (IF Recorded(WarnAmount) THEN 30 ELSE 0) - (IF off THEN 20 ELSE 0)

\* A fractional discount (0.8) with the unit price exactly 5% above
\* list price * 0.8: nothing is recorded.
C13_Witness ==
    /\ Extracted /\ Parsed
    /\ ListPrice > 0 /\ Discount > 0 /\ Discount < 100
    /\ 20 * UnitPrice * 100 = 21 * ListPrice * Discount
    /\ ~Recorded(WarnUnit)

\* float() rejects the value: a non-empty string that is no numeral.
Unparsable(val) == val.k = "str" /\ val.s # <<>> /\ ~FloatOk(Strip(val.s))
\* The value is empty or missing.
EmptyOrMissing(val) == val \in {None, Str(<<>>)}
SomeUnparsable ==
    \/ Unparsable(item_dict.list) \/ Unparsable(item_dict.discount)
    \/ Unparsable(item_dict.unit) \/ Unparsable(item_dict.amount)

\* C14: when one of the four prices does not parse, Pass A returns is_valid
\* false, confidence 0.0 and the format-error message alone (no consistency
\* check has run); an empty or missing price is no parse failure: it counts
\* as 0, so it records no format error and fires no check it is an operand of.
C14_FormatError ==
    Extracted =>
        /\ SomeUnparsable =>
              /\ ~item_validation.is_valid
              /\ item_validation.confidence = 0
              /\ Len(item_validation.warnings) = 1
              /\ item_validation.warnings[1].kind = WarnFormat
        /\ ~SomeUnparsable => ~Recorded(WarnFormat)
        /\ EmptyOrMissing(item_dict.unit) => ~Recorded(WarnAmount) /\ ~Recorded(WarnUnit)
        /\ EmptyOrMissing(item_dict.amount) => ~Recorded(WarnAmount)
        /\ EmptyOrMissing(item_dict.list) => ~Recorded(WarnUnit)
        /\ EmptyOrMissing(item_dict.discount) => ~Recorded(WarnUnit)

\* An unparsable unit price ("1,200") beside a missing discount and an amount
\* that parses.
C14_Witness ==
    /\ Extracted
    /\ Unparsable(item_dict.unit)
    /\ item_dict.discount = None
    /\ Field(item_dict.amount).ok /\ Amount > 0
    /\ item_validation.confidence = 0

\* C15: the confidence stored in the item lies in [0, 1], and Pass A reports
\* is_valid exactly when it recorded no warning.
C15_ConfidenceRange ==
    Extracted =>
        /\ item_dict.confidence >= 0 /\ item_dict.confidence <= 100
        /\ item_validation.is_valid <=> item_validation.warnings = <<>>

\* Both Pass A warnings together with the fallback penalty.
C15_Witness ==
    /\ Extracted
    /\ item_used_fallback
    /\ Recorded(WarnAmount) /\ Recorded(WarnUnit)
    /\ item_dict.confidence = 30

\* The entry that supplies the item's own price fields as structured fields.
StructuredTwin ==
    [cur_entry EXCEPT !.PriceFields =
        [ListPrice |-> item_dict.list, Discount |-> item_dict.discount,
         UnitPrice |-> item_dict.unit, Amount |-> item_dict.amount]]
TwinIsStructured == Supplied(item_dict.unit) \/ Supplied(item_dict.amount)

\* C16: an item filled by the fallback allocation ends with a confidence
\* strictly below that of the item with the same quantity and the same price
\* fields filled from structured fields; the penalty of 0.2 is taken once from
\* the confidence Pass A returned, also when the allocation returned no field.
C16_FallbackStrictlyLower ==
    (Extracted /\ item_used_fallback) =>
        /\ item_confidence = item_validation.confidence - 20
        /\ item_dict.confidence = item_confidence
        /\ item_dict.confidence < item_validation.confidence
        /\ TwinIsStructured =>
              LET twin == extract_item(StructuredTwin)
              IN  /\ ~twin.used_fallback
                  /\ twin.item_dict.qty = item_dict.qty
                  /\ twin.item_dict.list = item_dict.list
                  /\ twin.item_dict.discount = item_dict.discount
                  /\ twin.item_dict.unit = item_dict.unit
                  /\ twin.item_dict.amount = item_dict.amount
                  /\ item_dict.confidence < twin.item_dict.confidence

\* The fallback filled the unit price and Pass A recorded a warning for it.
C16_Witness ==
    /\ Extracted
    /\ item_used_fallback
    /\ TwinIsStructured
    /\ item_validation.confidence < 100
    /\ item_dict.confidence = item_validation.confidence - 20

RemarkWarnings == item_dict.remark.warning_text
InRemark(kind) == \E i \in 1..Len(RemarkWarnings) : RemarkWarnings[i].kind = kind

\* C17: when the confidence after Pass A and the fallback penalty is below 0.7
\* the low-confidence warning is the first warning written into the remark,
\* whether or not Pass A found the item valid; at 0.7 or above the remark
\* carries no low-confidence warning.
C17_LowConfidenceWarning ==
    Extracted =>
        IF item_confidence < 70
        THEN /\ RemarkWarnings # <<>>
             /\ RemarkWarnings[1] = [kind |-> WarnLow, args |-> <<item_confidence>>]
        ELSE ~InRemark(WarnLow)

\* An amount mismatch alone: the confidence is 1.0 - 0.3, the remark carries
\* the amount warning and no low-confidence warning.
C17_Witness ==
    /\ Extracted
    /\ item_confidence = 70
    /\ Recorded(WarnAmount)
    /\ InRemark(WarnAmount)
    /\ ~InRemark(WarnLow)

\* C18: every amount or unit-price warning Pass A recorded for the item is in
\* the warning text written into the item's remark.
C18_WarningsReachRemark ==
    Extracted =>
        \A i \in 1..Len(item_validation.warnings) :
            item_validation.warnings[i].kind \in {WarnAmount, WarnUnit} =>
                \E j \in 1..Len(RemarkWarnings) :
                    RemarkWarnings[j] = item_validation.warnings[i]

\* The raw price tokens the allocation would use.
NoUsableRawToken ==
    IF cur_entry.RawPrices.k = "str"
    THEN PriceList(cur_entry.RawPrices.s) = <<>>
    ELSE TRUE

\* C19: an item with no structured unit price or amount and no usable raw
\* price token has its four price fields empty, is returned, and ends with a
\* confidence strictly below 1.0.
C19_NothingToAllocate ==
    (Extracted /\ ~StructuredSupplied /\ NoUsableRawToken) =>
        /\ ItemPrices = [list |-> Str(<<>>), discount |-> Str(<<>>),
                         unit |-> Str(<<>>), amount |-> Str(<<>>)]
        /\ final_items = <<item_dict>>
        /\ item_dict.confidence < 100

----------------------------------------------------------------------------
(* Frame of the Pass B call *)

AuditedKeys == {"qty", "price", "amount", "status", "msg"}
\* The value is missing or a string that holds no number.
MissingOrUnparsable(val) ==
    \/ val = None
    \/ val.k = "str" /\ ~FloatOk(Strip(Without(val.s, {",", "$", " "})))

\* C20: the call leaves a number in the quantity, unit price and amount of
\* every item (the clean_num value of what was there, 0.0 for a missing or
\* unparsable value), returns the same items in the same order, and changes no
\* other key of an item than the audit status and the audit message.
C20_NumbersAndFrame ==
    [][auditPc = "call" =>
        /\ Len(items') = Len(items)
        /\ \A i \in 1..Len(items) :
              /\ DOMAIN items'[i] = DOMAIN items[i]
              /\ \A key \in DOMAIN items[i] \ AuditedKeys : items'[i][key] = items[i][key]
              /\ items'[i].qty = Num(clean_num(items[i].qty))
              /\ items'[i].price = Num(clean_num(items[i].price))
              /\ items'[i].amount = Num(clean_num(items[i].amount))
              /\ MissingOrUnparsable(items[i].qty) => items'[i].qty = Num(0)
              /\ items'[i].status \in {StatusPending, StatusPass, StatusWarning, StatusFailure}
    ]_vars

\* Two items returned in their order, the first with a quantity that was
\* missing or unparsable, every audited field a number.
C20_Witness ==
    /\ auditPc = "return"
    /\ Len(items) = 2
    /\ items[1].index = Str(<<"2">>) /\ items[2].index = Str(<<"1">>)
    /\ items[1].qty = Num(0)
    /\ items[2].amount = Num(120000)
    /\ \A i \in 1..2 : items[i].qty.k = "num" /\ items[i].price.k = "num"
                           /\ items[i].amount.k = "num"

----------------------------------------------------------------------------
(* Normalizer claims *)

MoneyCleaned == moneyPc = "return"
NumCleaned == numPc = "return"

\* What one character of the input leaves in the cleaned string.
KeptAs(c) ==
    IF c \in Digits \cup {"."} THEN <<c>>
    ELSE IF c \in {"O", "o"} THEN <<"0">>
    ELSE IF c \in {"L", "l", "I", "i"} THEN <<"1">>
    ELSE <<>>
RECURSIVE KeptOf(_)
KeptOf(s) == IF s = <<>> THEN <<>> ELSE KeptAs(Head(s)) \o KeptOf(Tail(s))

\* The string clean_money reads: str() of the value.
TextOf(val) == IF val.k = "str" THEN val.s ELSE PyStr(val)

\* C21: clean_money returns, for every input, a string that parses as a
\* number: the digits and points of the upper-cased input with O read as 0 and
\* L, I read as 1, or "0" when the input is empty or what is left does not
\* parse; '1,200' gives 1200, '$500' gives 500, '' gives 0, 'O0L' gives 001.
C21_CleanMoneyTotal ==
    MoneyCleaned =>
        /\ IsDecimal(money_result)
        /\ LET kept == KeptOf(TextOf(norm_value))
           IN  money_result =
                  IF Truthy(norm_value) /\ IsDecimal(kept) THEN kept ELSE <<"0">>
        /\ norm_value = Str(<<"1", ",", "2", "0", "0">>) => DecimalVal(money_result) = 120000
        /\ norm_value = Str(<<"$", "5", "0", "0">>) => DecimalVal(money_result) = 50000
        /\ norm_value = Str(<<>>) => DecimalVal(money_result) = 0
        /\ norm_value = Str(<<"O", "0", "L">>) => money_result = <<"0", "0", "1">>
        /\ norm_value = Str(<<"1", ".", "2", ".", "3">>) => money_result = <<"0">>

\* 'O0L' cleaned to 001.
C21_Witness ==
    /\ MoneyCleaned
    /\ norm_value = Str(<<"O", "0", "L">>)
    /\ DecimalVal(money_result) = 100

\* The characters of s that are no separator.
RECURSIVE Unseparated(_)
Unseparated(s) ==
    IF s = <<>> THEN <<>>
    ELSE IF Head(s) \in {",", "$", " "} THEN Unseparated(Tail(s))
    ELSE <<Head(s)>> \o Unseparated(Tail(s))

\* C22: clean_num returns a number for every input: 0.0 for an empty or
\* missing value, the number itself for a number, and for a string the number
\* its characters other than commas, '$' and blanks spell, or 0.0 when they
\* spell none; no letter is read as a digit: '1,200' gives 1200.0, ' $500 '
\* gives 500.0 and 'O0L' gives 0.0.
C22_CleanNumTotal ==
    NumCleaned =>
        /\ num_result \in Int
        /\ norm_value \in {None, Str(<<>>), Num(0)} => num_result = 0
        /\ norm_value.k = "num" => num_result = norm_value.v
        /\ norm_value.k = "str" =>
              LET s == Unseparated(norm_value.s)
              IN  num_result = IF FloatOk(s) THEN FloatVal(s) ELSE 0
        /\ norm_value = Str(<<"1", ",", "2", "0", "0">>) => num_result = 120000
        /\ norm_value = Str(<<" ", "$", "5", "0", "0", " ">>) => num_result = 50000
        /\ norm_value = Str(<<"O", "0", "L">>) => num_result = 0

\* ' $500 ' cleaned to 500.0.
C22_Witness ==
    /\ NumCleaned
    /\ norm_value = Str(<<" ", "$", "5", "0", "0", " ">>)
    /\ num_result = 50000

----------------------------------------------------------------------------
(* Repeated allocation *)

SameArguments(a, b) == a.raw = b.raw /\ a.quantity = b.quantity

----------------------------------------------------------------------------
(* Batch claims *)

SamePath(t, u) == saved_paths[t] = saved_paths[u]
HasLock(t) == my_lock[t] # 0
InsideWith(t) == taskPc[t] \in {"locked", "extracting", "leaving"}
LocksMade == { my_lock[t] : t \in Tasks } \ {0}
PathsSubmitted == { saved_paths[t] : t \in Tasks }

\* C24: two tasks for one path are never both inside read_purchase_order;
\* get_file_lock makes at most one lock for a path and hands that lock to every
\* caller; the lock is held from the entry of the with block to its exit,
\* whatever the block returns, and is free again once the task is done; a
\* task waiting for its lock waits only for a task of the same path.
C24_OneExtractionPerPath ==
    /\ \A t, u \in Tasks :
          (t # u /\ SamePath(t, u)) =>
              ~(taskPc[t] = "extracting" /\ taskPc[u] = "extracting")
    /\ \A t, u \in Tasks :
          (HasLock(t) /\ HasLock(u)) => (SamePath(t, u) <=> my_lock[t] = my_lock[u])
    /\ Cardinality(LocksMade) <= Cardinality(PathsSubmitted)
    /\ \A t \in Tasks : InsideWith(t) => lock_holder[my_lock[t]] = t
    /\ \A t \in Tasks : taskPc[t] = "done" => lock_holder[my_lock[t]] # t
    /\ \A t \in Tasks :
          (taskPc[t] = "acquire" /\ \A u \in Tasks : SamePath(t, u) => ~InsideWith(u))
              => lock_holder[my_lock[t]] = 0

\* One task inside read_purchase_order and the other task for the same path
\* waiting for the lock.
C24_Witness ==
    /\ Len(saved_paths) = 2
    /\ SamePath(1, 2)
    /\ taskPc[2] = "extracting"
    /\ taskPc[1] = "acquire"
    /\ lock_holder[my_lock[1]] = 2

Joined == mainPc = "joined"
Succeeded == { t \in Tasks : task_result[t].status = "success" }
Holds(s, x) == \E i \in 1..Len(s) : s[i] = x
Occurrences(s, x) == Cardinality({ i \in 1..Len(s) : s[i] = x })

\* C25: in whatever order the tasks complete, once the loop is left every
\* file is counted once, as a success or as a failure, total_items is the
\* number of collected items, and the collected items are the items of the
\* successful files, each as often as a successful task returned it.
C25_BatchCounts ==
    /\ stats.success + stats.failed = Cardinality(collected)
    /\ stats.total_items = Len(all_data)
    /\ Joined =>
          /\ stats.success + stats.failed = Len(saved_paths)
          /\ stats.total = Len(saved_paths)
          /\ stats.success = Cardinality(Succeeded)
          /\ \A i \in 1..Len(all_data) :
                \E t \in Succeeded : Holds(task_result[t].items, all_data[i])
          /\ \A t \in Succeeded : \A i \in 1..Len(task_result[t].items) :
                Occurrences(all_data, task_result[t].items[i]) =
                    Cardinality({ u \in Succeeded :
                                    Holds(task_result[u].items, task_result[t].items[i]) })

\* The first file failed, the second gave two items, and the second was
\* collected although the first had failed.
C25_Witness ==
    /\ Joined
    /\ Len(saved_paths) = 2
    /\ task_result[1].status = "error"
    /\ task_result[2].status = "success"
    /\ Len(all_data) = 2
    /\ stats.success = 1 /\ stats.failed = 1

----------------------------------------------------------------------------
(* Call chain claims *)

ExtractionLeft ==
    pipePc \in {"extract_exit", "read_exit", "file_done"} /\ extract_return.kind # "none"
InAttempt == pipePc = "items"
AttemptsStarted == Len(attempt_log) + (IF InAttempt THEN 1 ELSE 0)
AttemptSucceeded(i) == attempt_log[i].outcome = "ok"
SomeAttemptSucceeded == \E i \in 1..Len(attempt_log) : AttemptSucceeded(i)
ItemsOfReply == [i \in 1..Len(items_list) |-> extract_item(items_list[i]).item_dict]

\* The attempts of extract_items_with_template: at most MAX_RETRIES are
\* started; a successful attempt is the last one; a wait follows every failed
\* attempt but the MAX_RETRIES-th and no successful one; what is returned after
\* a successful attempt is the items of that attempt's reply, all of them and
\* none of an earlier attempt; with no successful attempt MAX_RETRIES attempts
\* were made and the return is the empty list with the one error.
RetryDiscipline ==
    /\ AttemptsStarted <= MAX_RETRIES
    /\ \A i \in 1..Len(attempt_log) :
          /\ AttemptSucceeded(i) => (i = Len(attempt_log) /\ pipePc \notin {"attempt", "items", "exhausted"})
          /\ attempt_log[i].slept <=> (~AttemptSucceeded(i) /\ i < MAX_RETRIES)
    /\ (ExtractionLeft /\ extract_return.kind = "returned") =>
          IF SomeAttemptSucceeded
          THEN /\ extract_return.items = ItemsOfReply
               /\ extract_return.errors = <<>>
               /\ \A i \in 1..Len(items_list) : ~RaisesOn(items_list[i])
          ELSE /\ Len(attempt_log) = MAX_RETRIES
               /\ extract_return.items = <<>>
               /\ extract_return.errors = <<"max retries exceeded">>

\* C26 as stated: the retry discipline, and once the function has left after
\* a successful upload the uploaded file is deleted.
C26_UploadedFileDeleted ==
    /\ RetryDiscipline
    /\ (ExtractionLeft /\ sample_file # "none") => sample_file = "deleted"

\* C26: the retry discipline, and once the function has left after a
\* successful upload genai.delete_file has been called exactly once; it is
\* never called earlier or without an upload, and the file is deleted
\* only by that call.
C26_RetriesAndCleanup ==
    /\ RetryDiscipline
    /\ (ExtractionLeft /\ sample_file # "none") => delete_calls = 1
    /\ (~ExtractionLeft \/ sample_file = "none") => delete_calls = 0
    /\ sample_file = "deleted" => delete_calls = 1

\* Two failed attempts, the second on an entry, each followed by a wait, then
\* an attempt that returned two items, and the upload deleted.
C26_Witness ==
    /\ ExtractionLeft
    /\ Len(attempt_log) = 3
    /\ attempt_log[1].outcome = "api error" /\ attempt_log[1].slept
    /\ attempt_log[2].outcome = "entry raised" /\ attempt_log[2].slept
    /\ AttemptSucceeded(3)
    /\ Len(extract_return.items) = 2
    /\ sample_file = "deleted"

ReadLeft == pipePc \in {"read_exit", "file_done"} /\ read_result # NoReadResult
Verdicts == {StatusPending, StatusPass, StatusWarning, StatusFailure}
WithVerdict(data, status) == { i \in 1..Len(data) : data[i].status = status }
RECURSIVE TotalOf(_, _)
TotalOf(data, n) == IF n = 0 THEN 0 ELSE data[n].amount.v + TotalOf(data, n - 1)

\* C27: read_purchase_order returns a result whatever the extraction does:
\* 'error' exactly when the extraction raised or gave no items, else
\* 'success' with total_items the number of items returned, error_items the
\* number with verdict Failure, warning_items the number with verdict Warning,
\* their sum at most total_items, calculated_total_amount the sum of the
\* normalized amounts, and every item with the confidence the extraction gave
\* it and a verdict.
C27_ReadNeverRaises ==
    ReadLeft =>
      /\ read_result.status \in {"error", "success"}
      /\ read_result.status = "error" <=>
            (extract_return.kind = "raised" \/ extract_return.items = <<>>)
      /\ read_result.status = "success" =>
            /\ Len(read_result.data) = Len(extract_return.items)
            /\ read_result.summary.total_items = Len(read_result.data)
            /\ read_result.summary.error_items =
                  Cardinality(WithVerdict(read_result.data, StatusFailure))
            /\ read_result.summary.warning_items =
                  Cardinality(WithVerdict(read_result.data, StatusWarning))
            /\ read_result.summary.error_items + read_result.summary.warning_items
                  <= read_result.summary.total_items
            /\ read_result.summary.calculated_total_amount =
                  TotalOf(read_result.data, Len(read_result.data))
            /\ \A i \in 1..Len(read_result.data) :
                  /\ read_result.data[i].status \in Verdicts
                  /\ read_result.data[i].confidence = extract_return.items[i].confidence
                  /\ read_result.data[i].amount =
                        Num(clean_num(extract_return.items[i].amount))

\* A success with one Failure and one Warning among two items.
C27_Witness ==
    /\ ReadLeft
    /\ read_result.status = "success"
    /\ read_result.summary.total_items = 2
    /\ read_result.summary.error_items = 1
    /\ read_result.summary.warning_items = 1
    /\ read_result.summary.calculated_total_amount > 0

FileLeft == pipePc = "file_done" /\ read_result # NoReadResult

\* C28 as stated: an 'error' of read_purchase_order gives an 'error' of
\* process_single_file with no items and an error text that is the message
\* read_purchase_order reported; a 'success' gives every item, tagged with
\* the file name.
C28_ErrorMessageCarried ==
    FileLeft =>
      /\ read_result.status = "error" =>
            /\ file_result.status = "error"
            /\ file_result.items = <<>>
            /\ file_result.error = read_result.message
      /\ read_result.status = "success" =>
            /\ file_result.status = "success"
            /\ file_result.items =
                  [i \in 1..Len(read_result.data) |->
                      [read_result.data[i] EXCEPT !.source = basename(file_path)]]

====
